---- MODULE Spec2Model ----
(***************************************************************************)
(* A model of the sentrel ingestion gateway: the EventBatcher              *)
(* (src/src/receiver/batcher.py), its wiring into the application          *)
(* lifespan and the ingestion routes (src/src/main.py,                     *)
(* src/src/receiver/endpoints.py), the rate limiter (src/src/main.py),     *)
(* DSN key validation and the envelope parser                              *)
(* (src/build/lib/src/receiver), the ETL pipeline and the indexer          *)
(* (src/src/etl, src/src/opensearch), the readiness probe                  *)
(* (src/src/main.py) and the pipeline singleton (src/src/etl/pipeline.py,  *)
(* src/src/tasks/celery_tasks.py).                                         *)
(*                                                                         *)
(* The service runs on one asyncio event loop: a coroutine runs without    *)
(* interruption from one suspension point to the next, so every action     *)
(* below is the code between two suspension points.  The suspension points *)
(* of the batcher are asyncio.sleep(1.0) in _flush_loop, the body of the   *)
(* flush callback, and `await self._flush_task` in stop().  The callers of *)
(* get_pipeline() are threads, which can be preempted between any two      *)
(* steps.                                                                  *)
(*                                                                         *)
(* Time is counted in ticks, TicksPerSecond to the second.  A time stamp   *)
(* taken with time.time() is kept as its age, the number of ticks since it *)
(* was taken, cut off at MaxAge: the code only ever reads the difference   *)
(* time.time() - stamp and compares it with a threshold below MaxAge.      *)
(***************************************************************************)
EXTENDS Integers, Sequences, FiniteSets, TLC

VARIABLES
    \* ---- EventBatcher (batcher.py) ----
    batch_size,            \* self.batch_size
    batch_timeout_seconds, \* self.batch_timeout_seconds
    buffer,                \* self._buffer: sequence of BatchedEvent
    first_event_time,      \* self._first_event_time, as an age (None: not set)
    running,               \* self._running
    flush_task,            \* self._flush_task: "none", "sleeping", "callback", "done"
    sleep_left,            \* ticks left of the flush loop's asyncio.sleep(1.0)
    cancel_requested,      \* self._flush_task.cancel() was called and not yet delivered
    lock,                  \* self._lock: "free" or its holder
    pc,                    \* where each caller task is suspended
    calls,                 \* the invocations of flush_callback so far
    next_id,               \* id of the next document handed to add()
    stop_added,            \* documents added when the pending stop() was called
    \* ---- the timeout scenario: what a test observes of the clock ----
    quiet,                 \* ticks since the last add() (None: no add yet)
    spread,                \* whether time has passed between two add() calls
    \* ---- settings (config.py) and the environment ----
    use_celery,            \* settings.use_celery
    celery_importable,     \* whether `from ..tasks.celery_tasks import ...` succeeds
    project_ids,           \* settings.project_ids, as a set
    auth_required,         \* settings.auth_required
    allowed_keys,          \* settings.allowed_public_keys, as a set
    \* ---- the application (main.py, endpoints.py) ----
    phase,                 \* "off", "init", "serving", "stopping", "closed"
    state_batcher,         \* hasattr(app.state, "batcher")
    state_opensearch,      \* hasattr(app.state, "opensearch")
    global_batcher,        \* batcher._batcher is not None
    client_closed,         \* app.state.opensearch.close() was called
    task_queue,            \* events handed to process_event_task.delay
    pipeline_direct,       \* events handed to _process_event_sync
    response,              \* the last response of an ingestion route
    \* ---- RateLimitMiddleware (main.py) ----
    requests_per_window,   \* self.requests_per_window (settings.rate_limit_requests)
    window_seconds,        \* self.window_seconds (settings.rate_limit_window)
    requests,              \* self.requests: client id -> (count, window_start as an age)
    admitted,              \* per client: the requests admitted in the fixed window
                           \* opened by its first request, and the age of that window
    rate_response,         \* the last response of dispatch()
    rate_lock,             \* self.lock: "free" or the thread holding it
    rate_thread,           \* per thread: where it is in _is_rate_limited(), its
                           \* client id, current_time, count and window_start
    \* ---- DSNAuth.validate_key applied to one key ----
    auth_key,              \* the key extracted from the request
    auth_result,           \* "none" before the call, then "valid" or "invalid"
    \* ---- EnvelopeParser.parse applied to one body (envelope_parser.py) ----
    raw_body,              \* the body, a sequence of bytes
    lines,                 \* lines[1:], the lines after the header line
    line_index,            \* i of _parse_items
    items,                 \* items of _parse_items
    header,                \* "unset", then "empty" (EnvelopeHeader()) or "parsed"
    parse_state,           \* "ready", "items", "returned" or "raised"
    parse_error,           \* the exception raised, "" if none
    envelope,              \* the envelope raw_body was encoded from, if it was
    \* ---- the ETL pipeline and the indexer (pipeline.py, indexer.py) ----
    utc_day,               \* the UTC calendar day of datetime.utcnow()
    store,                 \* OpenSearch: the documents held, by index and _id
    auto_ids,              \* how many _id values OpenSearch has generated
    index_result,          \* the result of the last index_single() or bulk_index()
    \* ---- one handler or function applied to one input ----
    call,                  \* the handler or function called, with its arguments
    result,                \* what it answered
    \* ---- the pipeline singleton (pipeline.py, celery_tasks.py) ----
    etl_pipeline,          \* etl.pipeline._pipeline: None or an ETLPipeline
    etl_lock,              \* etl.pipeline._pipeline_lock: "free" or its holder
    tasks_pipeline,        \* tasks.celery_tasks._pipeline
    tasks_lock,            \* tasks.celery_tasks._pipeline_lock
    pipelines,             \* the ETLPipeline objects: the attributes each has
    built,                 \* how often each component was constructed
    thread                 \* per thread: where it is in get_pipeline(), what it got,
                           \* whether it found the pipeline built under the lock

bvars == <<batch_size, batch_timeout_seconds, buffer, first_event_time, running,
           flush_task, sleep_left, cancel_requested, lock, pc, calls,
           next_id, stop_added>>

tvars == <<quiet, spread>>

cvars == <<use_celery, celery_importable, project_ids, auth_required, allowed_keys>>

avars == <<phase, state_batcher, state_opensearch, global_batcher, client_closed,
           task_queue, pipeline_direct, response>>

rvars == <<requests_per_window, window_seconds, requests, admitted, rate_response,
           rate_lock, rate_thread>>

kvars == <<auth_key, auth_result>>

pvars == <<raw_body, lines, line_index, items, header, parse_state, parse_error,
           envelope>>

dvars == <<utc_day, store, auto_ids, index_result>>

fvars == <<call, result>>

svars == <<etl_pipeline, etl_lock, tasks_pipeline, tasks_lock, pipelines, built,
           thread>>

vars == <<bvars, tvars, cvars, avars, rvars, kvars, pvars, dvars, fvars, svars>>

\* the components beside the batcher and the application
xvars == <<rvars, kvars, pvars, dvars, fvars, svars>>

\* the batcher and the application
gvars == <<bvars, tvars, cvars, avars>>

\* all but one component
not_rvars == <<gvars, kvars, pvars, dvars, fvars, svars>>
not_kvars == <<gvars, rvars, pvars, dvars, fvars, svars>>
not_pvars == <<gvars, rvars, kvars, dvars, fvars, svars>>
not_dvars == <<gvars, rvars, kvars, pvars, fvars, svars>>
not_fvars == <<gvars, rvars, kvars, pvars, dvars, svars>>
not_svars == <<gvars, rvars, kvars, pvars, dvars, fvars>>

\* what the batcher on its own leaves alone
appvars == <<cvars, avars, xvars>>

-----------------------------------------------------------------------------
(* Bounds of the model *)

\* documents handed to add() in one run
MaxDocs == 3
\* ticks to the second
TicksPerSecond == 1

\* the values of batch_size and batch_timeout_seconds tried
BatchSizes == {1, 2, MaxDocs}
Timeouts == {0, 1}

\* the request handlers, which call add(); the task "main" (the lifespan)
\* calls start(), flush() and stop()
Handlers == {"r1", "r2"}
Tasks == Handlers \cup {"main"}

\* asyncio.sleep(1.0) of _flush_loop
CheckIntervalSeconds == 1
SleepTicks == CheckIntervalSeconds * TicksPerSecond
MaxAge == SleepTicks + TicksPerSecond

None == -1

\* no handler or function called yet
NoCall == [op |-> "none"]

-----------------------------------------------------------------------------
(* Helpers *)

Older(a) == IF a = None THEN None ELSE IF a < MaxAge THEN a + 1 ELSE MaxAge

Ids(events) == [i \in 1..Len(events) |-> events[i].id]

Range(s) == {s[i] : i \in 1..Len(s)}

\* BatchedEvent(event_dict, project_id, event_id), received_at = time.time()
BatchedEvent(id) == [id |-> id, received_at |-> 0]

\* the running invocation of the callback a task is suspended in
RunningCall(o) == CHOOSE i \in 1..Len(calls) :
                      calls[i].owner = o /\ calls[i].status = "running"

-----------------------------------------------------------------------------
(* EventBatcher *)

\* add(): if len(self._buffer) >= self.batch_size: should_flush = True
add_should_flush_gt(buf) == Len(buf) > batch_size
add_should_flush(buf) == Len(buf) >= batch_size

\* add(): if self._first_event_time is None: self._first_event_time = time.time()
add_first_event_time_always(fet) == 0
add_first_event_time(fet) == IF fet = None THEN 0 ELSE fet

\* _flush_loop(): first_event_time is not None and elapsed >= batch_timeout_seconds
loop_should_flush_never(fet) == FALSE
loop_should_flush(fet) ==
    fet # None /\ fet >= batch_timeout_seconds * TicksPerSecond

\* flush(): count = len(events_to_process), returned also when the callback raised
flush_count_zero(events) == 0
flush_count(events) == Len(events)

\* flush(): except Exception: log and continue, the events are not re-queued
after_callback_failure_requeue(buf, events) ==
    [i \in 1..Len(events) |-> BatchedEvent(events[i])] \o buf
after_callback_failure(buf, events) == buf

\* flush(): the `with self._lock:` block ends before the callback is awaited
lock_kept_for_callback(o) == o
lock_at_callback(o) == "free"

\* flush(), up to the callback's first suspension, on the buffer buf:
\* an empty buffer returns 0; otherwise the buffer is copied and cleared under
\* the lock, _first_event_time reset, and the callback called outside the lock.
flush(buf, fet, o, via) ==
    IF buf = <<>>
    THEN /\ buffer' = buf
         /\ first_event_time' = fet
         /\ calls' = calls
         /\ lock' = lock
    ELSE /\ buffer' = <<>>
         /\ first_event_time' = None
         /\ lock' = lock_at_callback(o)
         /\ calls' = Append(calls, [batch |-> Ids(buf), via |-> via, owner |-> o,
                                    status |-> "running", returned |-> None])

\* flush(), from the end of the callback on: st is "done" when the callback
\* returned and "raised" when it raised an Exception, which flush() logs;
\* flush() returns the count in both cases.
flush_returns(o, st) ==
    LET i == RunningCall(o)
    IN  /\ calls' = [calls EXCEPT ![i] = [@ EXCEPT !.status = st, !.owner = "-",
                                             !.returned = flush_count(calls[i].batch)]]
        /\ buffer' = IF st = "raised"
                     THEN after_callback_failure(buffer, calls[i].batch)
                     ELSE buffer

\* start(): self._running = True; the flush task is created and sleeps
start_task ==
    /\ running' = TRUE
    /\ flush_task' = "sleeping"
    /\ sleep_left' = SleepTicks

\* start(): no-op when already running
start ==
    /\ pc["main"] = "idle"
    /\ ~running
    /\ ~cancel_requested
    /\ start_task
    /\ UNCHANGED <<batch_size, batch_timeout_seconds, buffer, first_event_time,
                   cancel_requested, lock, pc, calls, next_id, stop_added>>

\* add(): self._buffer.append(batched)
buffer_prepend(buf, batched) == <<batched>> \o buf
buffer_append(buf, batched) == Append(buf, batched)

\* add(): append under the lock, then flush inline when the batch is full
add_event(t) ==
    /\ pc[t] = "idle"
    /\ lock = "free"
    /\ next_id <= MaxDocs
    /\ LET buf == buffer_append(buffer, BatchedEvent(next_id))
           fet == add_first_event_time(first_event_time)
       IN  IF add_should_flush(buf)
           THEN /\ flush(buf, fet, t, "add")
                /\ pc' = [pc EXCEPT ![t] = "add_cb"]
           ELSE /\ buffer' = buf
                /\ first_event_time' = fet
                /\ calls' = calls
                /\ pc' = pc
                /\ lock' = lock
    /\ next_id' = next_id + 1

add(t) ==
    /\ add_event(t)
    /\ UNCHANGED <<batch_size, batch_timeout_seconds, running, flush_task,
                   sleep_left, cancel_requested, stop_added>>

\* an explicit flush() that finds documents in the buffer
explicit_flush(t) ==
    /\ pc[t] = "idle"
    /\ lock = "free"
    /\ buffer # <<>>
    /\ flush(buffer, first_event_time, t, "flush")
    /\ pc' = [pc EXCEPT ![t] = "flush_cb"]
    /\ UNCHANGED <<batch_size, batch_timeout_seconds, running, flush_task,
                   sleep_left, cancel_requested, next_id, stop_added>>

\* stop(), the final flush: await self.flush(); stop() returns when the
\* buffer was empty, else it is suspended in the callback
final_flush(t, added) ==
    /\ lock = "free"
    /\ flush(buffer, first_event_time, t, "stop")
    /\ pc' = [pc EXCEPT ![t] = IF buffer = <<>> THEN "idle" ELSE "stop_cb"]
    /\ stop_added' = IF buffer = <<>> THEN None ELSE added

\* stop(): self._running = False; cancel and await the flush task; final flush
stop(t) ==
    /\ pc[t] = "idle"
    /\ running' = FALSE
    /\ IF flush_task \in {"sleeping", "callback"}
       THEN /\ cancel_requested' = TRUE
            /\ pc' = [pc EXCEPT ![t] = "stop_wait"]
            /\ stop_added' = next_id - 1
            /\ UNCHANGED <<buffer, first_event_time, calls, lock>>
       ELSE /\ final_flush(t, next_id - 1)
            /\ UNCHANGED cancel_requested
    /\ UNCHANGED <<batch_size, batch_timeout_seconds, flush_task, sleep_left,
                   next_id>>

\* stop() resumes once the cancelled flush task has ended
stop_resume(t) ==
    /\ pc[t] = "stop_wait"
    /\ ~cancel_requested
    /\ final_flush(t, stop_added)
    /\ UNCHANGED <<batch_size, batch_timeout_seconds, running, flush_task,
                   sleep_left, cancel_requested, next_id>>

\* _flush_loop(): the task is cancelled at its suspension point, in the sleep or
\* inside the callback of its flush; CancelledError is not an Exception, so
\* flush() does not catch it and the loop breaks.
flush_loop_cancelled ==
    /\ cancel_requested
    /\ flush_task \in {"sleeping", "callback"}
    /\ flush_task' = "done"
    /\ cancel_requested' = FALSE
    /\ calls' = IF flush_task = "callback"
                THEN [calls EXCEPT ![RunningCall("timer")] =
                         [@ EXCEPT !.status = "cancelled", !.owner = "-"]]
                ELSE calls
    /\ UNCHANGED <<batch_size, batch_timeout_seconds, buffer, first_event_time,
                   running, sleep_left, lock, pc, next_id, stop_added>>

\* _flush_loop(): while self._running, sleep again
loop_again ==
    /\ flush_task' = IF running THEN "sleeping" ELSE "done"
    /\ sleep_left' = SleepTicks

\* _flush_loop(): one iteration after the sleep has elapsed
flush_loop_wake ==
    /\ flush_task = "sleeping"
    /\ sleep_left = 0
    /\ ~cancel_requested
    /\ lock = "free"
    /\ IF loop_should_flush(first_event_time)
       THEN /\ flush(buffer, first_event_time, "timer", "timer")
            /\ IF buffer = <<>>
               THEN loop_again
               ELSE /\ flush_task' = "callback"
                    /\ UNCHANGED sleep_left
       ELSE /\ loop_again
            /\ UNCHANGED <<buffer, first_event_time, calls, lock>>
    /\ UNCHANGED <<batch_size, batch_timeout_seconds, running, cancel_requested,
                   pc, next_id, stop_added>>

\* the callback of a caller's flush ends and add(), flush() or stop() returns
caller_callback_ends(t, st) ==
    /\ pc[t] \in {"add_cb", "flush_cb", "stop_cb"}
    /\ flush_returns(t, st)
    /\ pc' = [pc EXCEPT ![t] = "idle"]
    /\ stop_added' = IF pc[t] = "stop_cb" THEN None ELSE stop_added
    /\ UNCHANGED <<batch_size, batch_timeout_seconds, first_event_time, running,
                   flush_task, sleep_left, cancel_requested, lock, next_id>>

callback_returns(t) == caller_callback_ends(t, "done")
callback_raises(t) == caller_callback_ends(t, "raised")

\* the callback of the flush loop's flush ends; the loop goes on
loop_callback_ends(st) ==
    /\ flush_task = "callback"
    /\ ~cancel_requested
    /\ flush_returns("timer", st)
    /\ loop_again
    /\ UNCHANGED <<batch_size, batch_timeout_seconds, first_event_time, running,
                   cancel_requested, lock, pc, next_id, stop_added>>

loop_callback_returns == loop_callback_ends("done")
loop_callback_raises == loop_callback_ends("raised")

\* one tick of time passes; the sleep of the flush loop ends on time
Tick ==
    /\ ~(flush_task = "sleeping" /\ sleep_left = 0)
    /\ sleep_left' = IF flush_task = "sleeping" THEN sleep_left - 1 ELSE sleep_left
    /\ first_event_time' = Older(first_event_time)
    /\ buffer' = [i \in 1..Len(buffer) |->
                    [buffer[i] EXCEPT !.received_at = Older(@)]]
    /\ UNCHANGED <<batch_size, batch_timeout_seconds, running, flush_task,
                   cancel_requested, lock, pc, calls, next_id, stop_added>>

-----------------------------------------------------------------------------
(* Settings and request validation (config.py, endpoints.py, auth.py) *)

Routes == {"envelope", "store", "minidump", "security"}
Projects == {1, 2}

\* a request without a key: extract_public_key() returns None
Absent == "(absent)"
Keys == {Absent, "", "key1", "key2", "key3"}
\* the keys an allow-list can hold
ListedKeys == {"key1", "key2", "key3"}

\* settings.max_request_size, and max_minidump_size of receive_minidump
max_request_size == 5 * 1024 * 1024
max_minidump_size == 50 * 1024 * 1024

\* validate_project(): an empty list allows every project
validate_project_any(project_id) == TRUE
validate_project(project_id) ==
    IF project_ids = {} THEN TRUE ELSE project_id \in project_ids

\* DSNAuth.validate_key() of the allow-list: `if not public_key: return False`,
\* an empty allow-list allows every key, else the key must be listed
validate_key_listed_only(public_key) == public_key \in allowed_keys
validate_key(public_key) ==
    IF public_key = Absent \/ public_key = "" THEN FALSE
    ELSE IF allowed_keys = {} THEN TRUE
    ELSE public_key \in allowed_keys

\* dsn_auth = DSNAuth(allowed_keys, auth_required): with auth_required false
\* every key passes, an absent one included
dsn_auth_validate_key(public_key) ==
    IF ~auth_required THEN TRUE ELSE validate_key(public_key)

\* validate_request_size(): the Content-Length header when present and
\* parseable (None otherwise), then the length of the body read
too_large_trusts_header(content_length, body_len) ==
    content_length # None /\ content_length > max_request_size
too_large(content_length, body_len) ==
    \/ content_length # None /\ content_length > max_request_size
    \/ body_len > max_request_size

\* receive_minidump(): only the Content-Length header, against 50 MB
minidump_too_large(content_length) ==
    content_length # None /\ content_length > max_minidump_size

\* the checks every ingestion route starts with, in the order of the code:
\* the status of the HTTPException raised, 0 when none is
rejection_size_first(req) ==
    IF req.route = "minidump" /\ minidump_too_large(req.content_length) THEN 413
    ELSE IF req.route # "minidump" /\ too_large(req.content_length, req.body.len)
    THEN 413
    ELSE IF ~validate_project(req.project) THEN 404
    ELSE IF ~dsn_auth_validate_key(req.key) THEN 401
    ELSE 0
rejection(req) ==
    IF ~validate_project(req.project) THEN 404
    ELSE IF ~dsn_auth_validate_key(req.key) THEN 401
    ELSE IF req.route = "minidump"
    THEN (IF minidump_too_large(req.content_length) THEN 413 ELSE 0)
    ELSE IF too_large(req.content_length, req.body.len) THEN 413
    ELSE 0

\* raise HTTPException ends the handler: it goes on only when no check failed
proceeds_always(st) == TRUE
proceeds(st) == st = 0

\* the bodies tried: empty, one event (small, exactly max_request_size, one
\* byte more, more than a minidump may have), bytes that are no JSON, and JSON
\* that is no object
Bodies ==
    {[kind |-> "empty", len |-> 0], [kind |-> "garbage", len |-> 1],
     [kind |-> "nonobject", len |-> 3]}
    \cup {[kind |-> "event", len |-> n] :
             n \in {2, max_request_size, max_request_size + 1,
                    max_minidump_size + 1}}

\* Content-Length states the body's length or is absent (or unparseable);
\* both are tried where the header alone decides, above the minidump limit
ContentLengths(b) ==
    IF b.len > max_minidump_size THEN {None, b.len} ELSE {b.len}

\* the requests tried
Requests ==
    UNION {{[route |-> r, project |-> p, key |-> k, content_length |-> c,
             body |-> b] :
               r \in Routes, p \in Projects, k \in {Absent, "key1", "key2"},
               c \in ContentLengths(b)} : b \in Bodies}

\* the event payloads the route decodes from the body: envelope_parser.parse
\* and extract_events, or event_parser.parse
has_event(req) == req.route \in {"envelope", "store"} /\ req.body.kind = "event"

\* the body fails to decode: 400 (the envelope parser skips what is no JSON
\* and raises on JSON that is no object; the event parser raises on both)
decode_fails(req) ==
    \/ req.route = "envelope" /\ req.body.kind = "nonobject"
    \/ req.route = "store" /\ req.body.kind \in {"garbage", "nonobject"}

NoResponse == [route |-> "-", project |-> 0, key |-> Absent, big |-> FALSE,
               status |-> 0]

Response(req, st) ==
    [route |-> req.route, project |-> req.project, key |-> req.key,
     big |-> (req.body.len > max_request_size), status |-> st]

-----------------------------------------------------------------------------
(* The application: lifespan (main.py) and the ingestion routes             *)
(* (endpoints.py)                                                           *)

\* get_batcher(): create and start the global batcher when there is none
get_batcher ==
    IF global_batcher
    THEN UNCHANGED <<global_batcher, running, flush_task, sleep_left>>
    ELSE /\ global_batcher' = TRUE
         /\ start_task

\* lifespan(), up to the yield: the OpenSearch client is stored in app.state
\* when the template calls succeed (os_ok); the batcher is created, started and
\* stored in app.state when Celery is not used
lifespan_startup(os_ok) ==
    /\ phase = "init"
    /\ phase' = "serving"
    /\ state_opensearch' = os_ok
    /\ IF ~use_celery
       THEN /\ get_batcher
            /\ state_batcher' = TRUE
       ELSE UNCHANGED <<global_batcher, running, flush_task, sleep_left,
                        state_batcher>>
    /\ UNCHANGED <<batch_size, batch_timeout_seconds, buffer, first_event_time,
                   cancel_requested, lock, pc, calls, next_id, stop_added>>
    /\ UNCHANGED <<client_closed, task_queue, pipeline_direct, response>>

\* _process_event(): the task queue when Celery is used and importable (delay
\* may raise: broker_ok), else the batcher, created on first use (get_batcher
\* may raise: batcher_ok), else the pipeline at once.  TRUE in `raised` means
\* the exception left _process_event.
process_event(t, broker_ok, batcher_ok) ==
    IF use_celery /\ celery_importable
    THEN /\ task_queue' = IF broker_ok THEN task_queue \cup {next_id} ELSE task_queue
         /\ next_id' = next_id + 1
         /\ UNCHANGED <<buffer, first_event_time, calls, pc, lock, global_batcher,
                        running, flush_task, sleep_left, pipeline_direct>>
    ELSE IF global_batcher \/ batcher_ok
    THEN /\ get_batcher
         /\ add_event(t)
         /\ UNCHANGED <<task_queue, pipeline_direct>>
    ELSE /\ pipeline_direct' = pipeline_direct \cup {next_id}
         /\ next_id' = next_id + 1
         /\ UNCHANGED <<buffer, first_event_time, calls, pc, lock, global_batcher,
                        running, flush_task, sleep_left, task_queue>>

process_event_raises(broker_ok) == use_celery /\ celery_importable /\ ~broker_ok

\* the status of a request that passed the checks
handled_status(req, broker_ok) ==
    IF req.route \in {"minidump", "security"} \/ req.body.kind = "empty" THEN 200
    ELSE IF decode_fails(req) THEN 400
    ELSE IF req.route = "store" /\ has_event(req) /\ process_event_raises(broker_ok)
    THEN 400
    ELSE 200

\* receive_envelope(), receive_store(), receive_minidump(), receive_security()
receive(t, req) ==
    /\ phase = "serving"
    /\ pc[t] = "idle"
    /\ LET st == rejection(req)
       IN  IF proceeds(st) /\ has_event(req)
           THEN /\ next_id <= MaxDocs
                /\ \E broker_ok \in BOOLEAN, batcher_ok \in BOOLEAN :
                      /\ process_event(t, broker_ok, batcher_ok)
                      /\ response' = Response(req, IF st # 0 THEN st
                                           ELSE handled_status(req, broker_ok))
           ELSE /\ response' = Response(req, IF st # 0 THEN st
                                             ELSE handled_status(req, TRUE))
                /\ UNCHANGED <<buffer, first_event_time, calls, pc, lock, next_id,
                               global_batcher, running, flush_task, sleep_left,
                               task_queue, pipeline_direct>>
    /\ UNCHANGED <<batch_size, batch_timeout_seconds, cancel_requested,
                   stop_added>>
    /\ UNCHANGED <<phase, state_batcher, state_opensearch, client_closed>>

\* lifespan(): if hasattr(app.state, "opensearch"): app.state.opensearch.close()
close_client ==
    /\ client_closed' = state_opensearch
    /\ phase' = "closed"

\* lifespan(), after the yield: shutdown_batcher() when app.state has a
\* batcher, which stops the global batcher when there is one; then the client
\* is closed
lifespan_shutdown ==
    /\ phase = "serving"
    /\ \A t \in Handlers : pc[t] = "idle"
    /\ IF state_batcher /\ global_batcher
       THEN /\ stop("main")
            /\ phase' = "stopping"
            /\ UNCHANGED client_closed
       ELSE /\ close_client
            /\ UNCHANGED bvars
    /\ UNCHANGED <<state_batcher, state_opensearch, global_batcher, task_queue,
                   pipeline_direct, response>>

\* shutdown_batcher(): stop() has returned, _batcher = None; the client is closed
shutdown_batcher_returns ==
    /\ phase = "stopping"
    /\ pc["main"] = "idle"
    /\ global_batcher' = FALSE
    /\ close_client
    /\ UNCHANGED bvars
    /\ UNCHANGED <<state_batcher, state_opensearch, task_queue, pipeline_direct,
                   response>>

\* use_celery and whether Celery can be imported; without use_celery the
\* import is never tried
CeleryModes == {<<FALSE, FALSE>>, <<TRUE, TRUE>>, <<TRUE, FALSE>>}

\* auth_required and allowed_public_keys: no authentication, any non-empty
\* key, or the listed keys
AuthModes == {<<FALSE, {}>>, <<TRUE, {}>>, <<TRUE, {"key1"}>>}

\* the settings, chosen from the sets given
Settings(celery, projects, auth) ==
    /\ \E m \in celery : use_celery = m[1] /\ celery_importable = m[2]
    /\ project_ids \in projects
    /\ \E a \in auth : auth_required = a[1] /\ allowed_keys = a[2]

\* the application before lifespan() runs
AppInit ==
    /\ phase = "init"
    /\ state_batcher = FALSE
    /\ state_opensearch = FALSE
    /\ global_batcher = FALSE
    /\ client_closed = FALSE
    /\ task_queue = {}
    /\ pipeline_direct = {}
    /\ response = NoResponse

\* no application around the batcher
AppOff ==
    /\ Settings({<<FALSE, FALSE>>}, {{}}, {<<TRUE, {}>>})
    /\ phase = "off"
    /\ state_batcher = FALSE
    /\ state_opensearch = FALSE
    /\ global_batcher = FALSE
    /\ client_closed = FALSE
    /\ task_queue = {}
    /\ pipeline_direct = {}
    /\ response = NoResponse

-----------------------------------------------------------------------------
(* RateLimitMiddleware (main.py).  window_start is kept as its age, cut off *)
(* one tick past the length of the window: the code only asks whether       *)
(* current_time - window_start >= window_seconds.                           *)

Clients == {"a", "b"}
BypassPathsHealth == {"/health", "/ready"}
BypassPaths == {"/health", "/ready", "/metrics"}
Paths == {"/api/1/store/", "/health", "/ready", "/metrics"}

\* the values of rate_limit_requests and rate_limit_window tried
RateLimits == {0, 1, 2}
RateWindows == {1, 2}

WindowTicks == window_seconds * TicksPerSecond

\* the ticks a thread may spend inside _is_rate_limited()
MaxHold == 1

\* the largest age kept: a window that had ended when a thread that is inside
\* _is_rate_limited() took its current_time
AgeCap == WindowTicks + MaxHold

\* a thread outside _is_rate_limited()
NotLimiting ==
    [pc |-> "idle", client |-> "-", waited |-> 0, count |-> 0,
     window_start |-> 0, status |-> 0]

\* _is_rate_limited(): current_time - window_start >= self.window_seconds
new_window_gt(age) == age > WindowTicks
new_window(age) == age >= WindowTicks

\* _is_rate_limited(): count >= self.requests_per_window
limit_exceeded_gt(count) == count > requests_per_window
limit_exceeded(count) == count >= requests_per_window

\* _is_rate_limited(client_id), under self.lock: (is_limited, remaining) and
\* the entry of the client afterwards
is_rate_limited(client_id) ==
    LET e == requests[client_id]
    IN  IF new_window(e.age)
        THEN [limited |-> FALSE, remaining |-> requests_per_window - 1,
              entry |-> [count |-> 1, age |-> 0]]
        ELSE IF limit_exceeded(e.count)
        THEN [limited |-> TRUE, remaining |-> 0, entry |-> e]
        ELSE [limited |-> FALSE,
              remaining |-> requests_per_window - e.count - 1,
              entry |-> [e EXCEPT !.count = e.count + 1]]

\* the responses of dispatch(): 429 with its headers, or the response of
\* call_next with the rate limit headers added (headers) or not
RateLimitedResponse(c, path) ==
    [client |-> c, path |-> path, status |-> 429, handled |-> FALSE,
     retry_after |-> window_seconds, headers |-> TRUE, remaining |-> 0]
HandledResponse(c, path, headers, remaining) ==
    [client |-> c, path |-> path, status |-> 200, handled |-> TRUE,
     retry_after |-> 0, headers |-> headers, remaining |-> remaining]
NoRateResponse ==
    [client |-> "-", path |-> "-", status |-> 0, handled |-> FALSE,
     retry_after |-> 0, headers |-> FALSE, remaining |-> 0]

\* the fixed window of a client as an observer counts it: a request that finds
\* no window open (none yet, or window_seconds have passed since it opened)
\* opens one
WindowAt(w) ==
    IF w.age = None \/ w.age >= WindowTicks
    THEN [count |-> 0, age |-> 0]
    ELSE w

\* dispatch(): the health paths go straight to call_next; the others are
\* counted, and answered 429 without call_next when limited
dispatch(c, path) ==
    IF path \in BypassPaths
    THEN /\ rate_response' = HandledResponse(c, path, FALSE, 0)
         /\ UNCHANGED <<requests, admitted>>
    ELSE LET r == is_rate_limited(c)
             w == WindowAt(admitted[c])
         IN  /\ requests' = [requests EXCEPT ![c] = r.entry]
             /\ admitted' = [admitted EXCEPT ![c] =
                    [w EXCEPT !.count = IF r.limited THEN @ ELSE @ + 1]]
             /\ rate_response' =
                    IF r.limited THEN RateLimitedResponse(c, path)
                    ELSE HandledResponse(c, path, TRUE, r.remaining)

\* one tick of time passes
RateTick ==
    /\ requests' = [c \in Clients |->
          [requests[c] EXCEPT !.age = IF @ < AgeCap THEN @ + 1 ELSE @]]
    /\ admitted' = [c \in Clients |->
          [admitted[c] EXCEPT !.age = IF @ = None \/ @ >= WindowTicks THEN @
                                      ELSE @ + 1]]
    /\ UNCHANGED rate_response

\* dispatch() of one request, kept with the entries it found and left
dispatch_request(c, path) ==
    /\ dispatch(c, path)
    /\ call' = [op |-> "dispatch", client |-> c, path |-> path, found |-> requests]
    /\ result' = [status |-> rate_response'.status, left |-> requests']

\* RateLimitMiddleware.__init__(): defaultdict(lambda: (0, 0.0)), a window
\* that started at time 0.0 and is long over
RateInit(limits, windows) ==
    /\ requests_per_window \in limits
    /\ window_seconds \in windows
    /\ requests = [c \in Clients |-> [count |-> 0, age |-> AgeCap]]
    /\ admitted = [c \in Clients |-> [count |-> 0, age |-> None]]
    /\ rate_response = NoRateResponse
    /\ rate_lock = "free"
    /\ rate_thread = [t \in Handlers |-> NotLimiting]

\* _is_rate_limited(), the decision on the entry read, `waited` ticks after
\* current_time = time.time() was taken: (is_limited, entry to store)
is_rate_limited_at(e, waited) ==
    IF new_window(e.age - waited)
    THEN [limited |-> FALSE, fresh |-> TRUE,
          entry |-> [count |-> 1, age |-> waited]]
    ELSE IF limit_exceeded(e.count)
    THEN [limited |-> TRUE, fresh |-> FALSE, entry |-> e]
    ELSE [limited |-> FALSE, fresh |-> FALSE,
          entry |-> [e EXCEPT !.count = e.count + 1]]

\* _is_rate_limited(): current_time = time.time(), taken before the lock
limiter_enter(t, c) ==
    /\ rate_thread[t].pc = "idle"
    /\ rate_thread' = [rate_thread EXCEPT ![t] =
           [pc |-> "wait", client |-> c, waited |-> 0, count |-> 0,
            window_start |-> 0, status |-> 0]]
    /\ UNCHANGED <<requests, admitted, rate_response, rate_lock>>

\* with self.lock: a thread enters when no other thread holds the lock
lock_ignored(t) == TRUE
lock_available(t) == rate_lock = "free"

\* _is_rate_limited(): the lock is taken and the entry of the client read,
\* count, window_start = self.requests[client_id]
limiter_acquire(t) ==
    /\ rate_thread[t].pc = "wait"
    /\ lock_available(t)
    /\ rate_lock' = t
    /\ rate_thread' = [rate_thread EXCEPT ![t] =
           [@ EXCEPT !.pc = "locked",
                     !.count = requests[rate_thread[t].client].count,
                     !.window_start = requests[rate_thread[t].client].age]]
    /\ UNCHANGED <<requests, admitted, rate_response>>

\* _is_rate_limited(): the entry is stored, unless the request is limited, and
\* the lock released by the return; `admitted` counts the requests admitted
\* since the entry's window was opened
limiter_write(t) ==
    /\ rate_thread[t].pc = "locked"
    /\ LET c == rate_thread[t].client
           r == is_rate_limited_at([count |-> rate_thread[t].count,
                                    age |-> rate_thread[t].window_start],
                                   rate_thread[t].waited)
       IN  /\ requests' = IF r.limited THEN requests
                          ELSE [requests EXCEPT ![c] = r.entry]
           /\ admitted' = [admitted EXCEPT ![c] =
                  IF r.limited THEN @
                  ELSE IF r.fresh THEN [count |-> 1, age |-> r.entry.age]
                  ELSE [@ EXCEPT !.count = @ + 1]]
           /\ rate_thread' = [rate_thread EXCEPT ![t] =
                  [NotLimiting EXCEPT !.client = c,
                                      !.status = IF r.limited THEN 429 ELSE 200]]
    /\ rate_lock' = "free"
    /\ UNCHANGED rate_response

\* one tick of time passes, while no thread has been inside
\* _is_rate_limited() for MaxHold ticks
limiter_tick ==
    /\ \A t \in Handlers :
          rate_thread[t].pc # "idle" => rate_thread[t].waited < MaxHold
    /\ RateTick
    /\ rate_thread' = [t \in Handlers |->
          IF rate_thread[t].pc = "idle" THEN rate_thread[t]
          ELSE [rate_thread[t] EXCEPT
                   !.waited = @ + 1,
                   !.window_start = IF rate_thread[t].pc = "locked" /\ @ < AgeCap
                                    THEN @ + 1 ELSE @]]
    /\ UNCHANGED rate_lock

-----------------------------------------------------------------------------
(* EnvelopeParser (envelope_parser.py).  A body is a sequence of bytes.  The *)
(* bodies tried are the concatenations of at most MaxBody tokens, a token    *)
(* being one byte or one JSON text.                                          *)

\* tokens to a body
MaxBody == 4

NL == "\n"

\* the bytes of `"length":`
LengthKey == <<"\"", "l", "e", "n", "g", "t", "h", "\"", ":">>

Tokens == {NL, " ", "x", "1", "{}", "[]", "{\"length\":-1}", "{\"length\":1}",
           "{\"length\":2}", "{\"length\":\"1\"}"}

TokenBytes(token) ==
    CASE token = "{}" -> <<"{", "}">>
      [] token = "[]" -> <<"[", "]">>
      [] token = "{\"length\":-1}" -> <<"{">> \o LengthKey \o <<"-", "1", "}">>
      [] token = "{\"length\":1}" -> <<"{">> \o LengthKey \o <<"1", "}">>
      [] token = "{\"length\":2}" -> <<"{">> \o LengthKey \o <<"2", "}">>
      [] token = "{\"length\":\"1\"}" -> <<"{">> \o LengthKey \o <<"\"", "1", "\"", "}">>
      [] OTHER -> <<token>>

RECURSIVE Join(_)
Join(tokens) ==
    IF tokens = <<>> THEN <<>> ELSE TokenBytes(Head(tokens)) \o Join(Tail(tokens))

EnvelopeBodies(tokens, n) == {Join(s) : s \in UNION {[1..k -> tokens] : k \in 0..n}}

Min(a, b) == IF a <= b THEN a ELSE b
Max(a, b) == IF a >= b THEN a ELSE b

\* raw_body.split(b"\n")
RECURSIVE Split(_)
Split(bytes) ==
    IF \E k \in 1..Len(bytes) : bytes[k] = NL
    THEN LET k == CHOOSE k \in 1..Len(bytes) :
                      bytes[k] = NL /\ \A m \in 1..(k - 1) : bytes[m] # NL
         IN <<SubSeq(bytes, 1, k - 1)>> \o Split(SubSeq(bytes, k + 1, Len(bytes)))
    ELSE <<bytes>>

\* b"\n".join(lns): the bytes of the input that the lines lns were split from
RECURSIVE JoinLines(_)
JoinLines(lns) ==
    IF lns = <<>> THEN <<>>
    ELSE IF Len(lns) = 1 THEN lns[1]
    ELSE lns[1] \o <<NL>> \o JoinLines(Tail(lns))

\* the bytes of the input after the item header in lines[i] (0-based)
remaining_input(lns, i) == JoinLines(SubSeq(lns, i + 2, Len(lns)))

\* bytes.strip(): ASCII white space, of which a line holds no newline
Whitespace == {" ", "\t", "\r"}

RECURSIVE LStrip(_)
LStrip(bytes) ==
    IF bytes # <<>> /\ Head(bytes) \in Whitespace THEN LStrip(Tail(bytes)) ELSE bytes

RECURSIVE RStrip(_)
RStrip(bytes) ==
    IF bytes # <<>> /\ bytes[Len(bytes)] \in Whitespace
    THEN RStrip(SubSeq(bytes, 1, Len(bytes) - 1))
    ELSE bytes

Strip(bytes) == RStrip(LStrip(bytes))

\* `not line or not line.strip()`
blank(line) == line = <<>> \/ Strip(line) = <<>>

\* part[:remaining], a Python slice: a negative bound counts from the end
Prefix(part, remaining) ==
    IF remaining >= 0
    THEN SubSeq(part, 1, Min(remaining, Len(part)))
    ELSE SubSeq(part, 1, Max(Len(part) + remaining, 0))

Digits == <<"0", "1", "2", "3", "4", "5", "6", "7", "8", "9">>

IsDigit(byte) == \E k \in 1..10 : Digits[k] = byte

DigitValue(byte) == (CHOOSE k \in 1..10 : Digits[k] = byte) - 1

RECURSIVE Decimal(_)
Decimal(bytes) ==
    IF bytes = <<>> THEN 0
    ELSE 10 * Decimal(SubSeq(bytes, 1, Len(bytes) - 1)) + DigitValue(bytes[Len(bytes)])

\* a JSON integer: digits without a leading zero, after an optional minus sign
IsNatural(bytes) ==
    /\ bytes # <<>>
    /\ \A k \in 1..Len(bytes) : IsDigit(bytes[k])
    /\ Len(bytes) > 1 => bytes[1] # "0"

IsInteger(bytes) ==
    IF bytes # <<>> /\ Head(bytes) = "-" THEN IsNatural(Tail(bytes)) ELSE IsNatural(bytes)

Integer(bytes) ==
    IF Head(bytes) = "-" THEN 0 - Decimal(Tail(bytes)) ELSE Decimal(bytes)

\* a JSON string of digits
IsString(bytes) ==
    /\ Len(bytes) >= 2
    /\ bytes[1] = "\"" /\ bytes[Len(bytes)] = "\""
    /\ \A k \in 2..(Len(bytes) - 1) : IsDigit(bytes[k])

\* what orjson.loads returns: kind "invalid" stands for JSONDecodeError; of an
\* object the `length` member is kept, as its type and, for an integer, its
\* value
Invalid == [kind |-> "invalid", length_type |-> "absent", length |-> 0]
Object(type, length) == [kind |-> "object", length_type |-> type, length |-> length]
Array == [kind |-> "array", length_type |-> "absent", length |-> 0]
Number == [kind |-> "number", length_type |-> "absent", length |-> 0]

\* orjson.loads(line), on the JSON texts the bodies are made of: an empty
\* object, an object with the one member "length", an empty array, an integer;
\* white space around the text is allowed
orjson_loads(line) ==
    LET text == Strip(line)
        n == Len(text)
        k == Len(LengthKey)
    IN IF text = <<"{", "}">> THEN Object("absent", 0)
       ELSE IF text = <<"[", "]">> THEN Array
       ELSE IF IsInteger(text) THEN Number
       ELSE IF /\ n > k + 2
               /\ SubSeq(text, 1, k + 1) = <<"{">> \o LengthKey
               /\ text[n] = "}"
            THEN LET value == SubSeq(text, k + 2, n - 1)
                 IN IF IsInteger(value) THEN Object("int", Integer(value))
                    ELSE IF IsString(value) THEN Object("str", 0)
                    ELSE Invalid
       ELSE Invalid

\* _parse_header(): "empty" is EnvelopeHeader(), "parsed" the header built from
\* the members of the object; data.get on a value that is not a dict raises
\* AttributeError, which the except clause does not name
parse_header(header_line) ==
    IF blank(header_line) THEN [raised |-> "", header |-> "empty"]
    ELSE LET data == orjson_loads(header_line)
         IN IF data.kind = "invalid" THEN [raised |-> "", header |-> "empty"]
            ELSE IF data.kind = "object" THEN [raised |-> "", header |-> "parsed"]
            ELSE [raised |-> "AttributeError", header |-> "unset"]

\* the loop without `payload_parts.append(b"\n")`
RECURSIVE read_length_drops_newline(_, _, _, _, _, _)
read_length_drops_newline(length, lns, j, total_length, payload_parts, consumed) ==
    IF j >= Len(lns)
    THEN [raised |-> "", payload |-> payload_parts, consumed |-> consumed]
    ELSE LET part == lns[j + 1]
             remaining == length - total_length
         IN IF Len(part) >= remaining
            THEN [raised |-> "", payload |-> payload_parts \o Prefix(part, remaining),
                  consumed |-> consumed + 1]
            ELSE read_length_drops_newline(length, lns, j + 1,
                                           total_length + Len(part) + 1,
                                           payload_parts \o part, consumed + 1)

\* the loop of _extract_item_payload() over lines[j], from j on (0-based)
RECURSIVE read_length(_, _, _, _, _, _)
read_length(length, lns, j, total_length, payload_parts, consumed) ==
    IF j >= Len(lns)
    THEN [raised |-> "", payload |-> payload_parts, consumed |-> consumed]
    ELSE LET part == lns[j + 1]
             remaining == length - total_length
         IN IF Len(part) >= remaining
            THEN [raised |-> "", payload |-> payload_parts \o Prefix(part, remaining),
                  consumed |-> consumed + 1]
            ELSE read_length(length, lns, j + 1, total_length + Len(part) + 1,
                             payload_parts \o part \o <<NL>>, consumed + 1)

\* _extract_item_payload(): `length - total_length` raises TypeError for a
\* length that is a string
extract_item_payload(item_header, lns, start_index) ==
    IF start_index >= Len(lns)
    THEN [raised |-> "", payload |-> <<>>, consumed |-> 0]
    ELSE IF item_header.length_type = "absent"
    THEN [raised |-> "", payload |-> lns[start_index + 1], consumed |-> 1]
    ELSE IF item_header.length_type = "str"
    THEN [raised |-> "TypeError", payload |-> <<>>, consumed |-> 0]
    ELSE read_length(item_header.length, lns, start_index, 0, <<>>, 0)

\* _parse_items(): `i += 1; continue` after a line that is empty or is not a
\* JSON text
skip_two_lines(i) == i + 2
skip_line_stays(i) == i
skip_line(i) == i + 1

\* parse(), up to the call of _parse_items()
parse_start ==
    /\ parse_state = "ready"
    /\ IF raw_body = <<>>
       THEN /\ header' = "empty"
            /\ parse_state' = "returned"
            /\ UNCHANGED <<lines, parse_error>>
       ELSE LET all == Split(raw_body)
                h == parse_header(all[1])
            IN /\ header' = h.header
               /\ parse_error' = h.raised
               /\ parse_state' = IF h.raised = "" THEN "items" ELSE "raised"
               /\ lines' = IF h.raised = "" THEN Tail(all) ELSE lines
    /\ UNCHANGED <<raw_body, line_index, items, envelope>>

\* one turn of the loop of _parse_items()
parse_item ==
    /\ parse_state = "items"
    /\ line_index < Len(lines)
    /\ LET line == lines[line_index + 1]
           item_header == orjson_loads(line)
           extracted == extract_item_payload(item_header, lines, line_index + 1)
       IN IF blank(line) \/ item_header.kind = "invalid"
          THEN /\ line_index' = skip_line(line_index)
               /\ UNCHANGED <<items, parse_state, parse_error>>
          ELSE IF item_header.kind # "object"
          THEN /\ parse_state' = "raised"
               /\ parse_error' = "AttributeError"
               /\ UNCHANGED <<items, line_index>>
          ELSE IF extracted.raised # ""
          THEN /\ parse_state' = "raised"
               /\ parse_error' = extracted.raised
               /\ UNCHANGED <<items, line_index>>
          ELSE /\ items' = Append(items, [headers |-> item_header,
                                           payload |-> extracted.payload,
                                           line |-> line_index])
               /\ line_index' = line_index + 1 + extracted.consumed
               /\ UNCHANGED <<parse_state, parse_error>>
    /\ UNCHANGED <<raw_body, lines, header, envelope>>

\* the loop of _parse_items() ends and parse() returns the ParsedEnvelope
parse_return ==
    /\ parse_state = "items"
    /\ line_index >= Len(lines)
    /\ parse_state' = "returned"
    /\ UNCHANGED <<raw_body, lines, line_index, items, header, parse_error, envelope>>

\* the bytes of a natural number in decimal
RECURSIVE DecimalBytes(_)
DecimalBytes(n) ==
    IF n < 10 THEN <<Digits[n + 1]>>
    ELSE DecimalBytes(n \div 10) \o <<Digits[(n % 10) + 1]>>

\* an item of an envelope to encode: its payload, and whether its header
\* declares the length of the payload
ItemHeaderBytes(item) ==
    IF item.declared
    THEN <<"{">> \o LengthKey \o DecimalBytes(Len(item.payload)) \o <<"}">>
    ELSE <<"{", "}">>

\* the items from the k-th on, each a header line and a payload, a newline
\* between two items and, if `trailing`, after the last
RECURSIVE EncodeItems(_, _, _)
EncodeItems(its, k, trailing) ==
    IF k > Len(its) THEN <<>>
    ELSE ItemHeaderBytes(its[k]) \o <<NL>> \o its[k].payload
         \o (IF k < Len(its) \/ trailing THEN <<NL>> ELSE <<>>)
         \o EncodeItems(its, k + 1, trailing)

\* the envelope format of the class docstring: the header line, then the items
Encode(env) == <<"{", "}", NL>> \o EncodeItems(env.items, 1, env.trailing)

NoEnvelope == [items |-> <<>>, trailing |-> FALSE]

\* before parse(raw_body)
ParseInit(bodies) ==
    /\ raw_body \in bodies
    /\ envelope = NoEnvelope
    /\ lines = <<>>
    /\ line_index = 0
    /\ items = <<>>
    /\ header = "unset"
    /\ parse_state = "ready"
    /\ parse_error = ""

-----------------------------------------------------------------------------
(* The ETL pipeline (pipeline.py), the transformer (transformer.py) and the  *)
(* indexer (indexer.py).  A naive datetime, which the pipeline reads as UTC, *)
(* is its calendar day, counted from the epoch, and the second of that day.  *)

\* the last UTC day of a run
LastDay == 1
\* documents indexed without an _id in one run
MaxAutoIds == 2

SecondsPerDay == 86400

\* event.event_id is None
NoneId == "None"
EventIds == {"e1"}

\* event.timestamp: None or a number of seconds (all below the 1e12 above
\* which _normalize_timestamp takes a number for milliseconds)
EventTimestamps == {None, SecondsPerDay - 1, SecondsPerDay}

\* SentryEvent, as far as the pipeline routes by it
PipelineEvents == [event_id : EventIds \cup {NoneId}, timestamp : EventTimestamps]

DateTime(day, second) == [day |-> day, second |-> second]

\* datetime.utcnow(); the second of the day is immaterial
utcnow == DateTime(utc_day, 0)

\* datetime.utcfromtimestamp(ts)
utcfromtimestamp(ts) == DateTime(ts \div SecondsPerDay, ts % SecondsPerDay)

\* datetime.isoformat() of a naive datetime: "<date>T<time>", without offset
isoformat(dt) == [date |-> dt.day, time |-> dt.second]

\* datetime.fromisoformat() of such a string
fromisoformat(text) == DateTime(text.date, text.time)

\* EventTransformer._normalize_timestamp()
normalize_timestamp(ts) == IF ts = None THEN utcnow ELSE utcfromtimestamp(ts)

\* EventTransformer.transform(): the document, as far as the indexer reads it;
\* a key whose value is None is removed
transform(event, project_id) ==
    [event_id |-> IF event.event_id = NoneId THEN Absent ELSE event.event_id,
     at_timestamp |-> isoformat(normalize_timestamp(event.timestamp)),
     project_id |-> project_id]

\* EventIndexer._extract_timestamp(), of a document that has "@timestamp"
extract_timestamp(document) == fromisoformat(document.at_timestamp)

index_prefix == "sentry-events"

\* EventIndexer.get_index_name(): f"{prefix}-{timestamp.strftime('%Y.%m.%d')}"
get_index_name_today(timestamp) == [prefix |-> index_prefix, date |-> utc_day]
get_index_name(timestamp) == [prefix |-> index_prefix, date |-> timestamp.day]

\* EventIndexer._prepare_bulk_action()
prepare_bulk_action(document) ==
    [index |-> get_index_name(extract_timestamp(document)),
     id |-> document.event_id,
     source |-> document]

\* the _id OpenSearch generates for the n-th document indexed without one
AutoIds == <<"auto1", "auto2", "auto3", "auto4">>

\* OpenSearch, an index request: the document replaces the one its index holds
\* under the same _id, if any; without an _id it gets a fresh one
IndexRequest(os, action) ==
    LET id == IF action.id = Absent THEN AutoIds[os.auto_ids + 1] ELSE action.id
    IN [held |-> {d \in os.held : ~(d.index = action.index /\ d.id = id)}
                 \cup {[index |-> action.index, id |-> id, source |-> action.source]},
        auto_ids |-> IF action.id = Absent THEN os.auto_ids + 1 ELSE os.auto_ids]

RECURSIVE IndexRequests(_, _)
IndexRequests(os, actions) ==
    IF actions = <<>> THEN os
    ELSE IndexRequests(IndexRequest(os, Head(actions)), Tail(actions))

WithoutId(documents) == {k \in 1..Len(documents) : documents[k].event_id = Absent}

OpenSearch == [held |-> store, auto_ids |-> auto_ids]

\* EventIndexer.index_single(): os_client.index(index=..., id=event_id, ...)
\* raises when OpenSearch cannot be reached
index_single(document, os_ok) ==
    LET action == [index |-> get_index_name(extract_timestamp(document)),
                   id |-> document.event_id,
                   source |-> document]
        os == IF os_ok THEN IndexRequest(OpenSearch, action) ELSE OpenSearch
    IN /\ store' = os.held
       /\ auto_ids' = os.auto_ids
       /\ index_result' = [success |-> IF os_ok THEN 1 ELSE 0,
                           failed |-> IF os_ok THEN 0 ELSE 1,
                           errors |-> IF os_ok THEN <<>>
                                      ELSE <<[chunk |-> 0, error |-> "exception"]>>]

\* bulk_index(documents, chunk_size: int = 500)
DefaultChunkSize == 500
\* "errors": total_errors[:10]
ErrorLimit == 10

\* what opensearchpy.helpers.bulk does with a chunk: it indexes every document,
\* or reports every document as failed, or raises
ChunkOutcomes == {"indexed", "rejected", "raises"}

\* len(range(0, n, chunk_size))
ChunkCount(n, chunk_size) == (n + chunk_size - 1) \div chunk_size

\* the loop of bulk_index() from documents[i] on (0-based); acc holds
\* total_success, total_errors, the bulk requests made and OpenSearch
RECURSIVE bulk_chunks_stops(_, _, _, _, _)
bulk_chunks_stops(documents, chunk_size, i, outcomes, acc) ==
    IF i >= Len(documents) THEN acc
    ELSE LET chunk == SubSeq(documents, i + 1, Min(i + chunk_size, Len(documents)))
             actions == [k \in 1..Len(chunk) |-> prepare_bulk_action(chunk[k])]
             n == Len(acc.requests) + 1
             sent == Append(acc.requests, actions)
         IN IF outcomes[n] = "raises"
            THEN [acc EXCEPT !.requests = sent,
                             !.total_errors = Append(@, [chunk |-> n, error |-> "exception"])]
            ELSE bulk_chunks_stops(documents, chunk_size, i + chunk_size, outcomes,
                 IF outcomes[n] = "rejected"
                 THEN [acc EXCEPT !.requests = sent,
                                  !.total_errors = @ \o [k \in 1..Len(chunk) |->
                                                     [chunk |-> n, error |-> "item"]]]
                 ELSE [acc EXCEPT !.requests = sent,
                                  !.total_success = @ + Len(chunk),
                                  !.os = IndexRequests(@, actions)])

RECURSIVE bulk_chunks(_, _, _, _, _)
bulk_chunks(documents, chunk_size, i, outcomes, acc) ==
    IF i >= Len(documents) THEN acc
    ELSE LET chunk == SubSeq(documents, i + 1, Min(i + chunk_size, Len(documents)))
             actions == [k \in 1..Len(chunk) |-> prepare_bulk_action(chunk[k])]
             n == Len(acc.requests) + 1
             sent == Append(acc.requests, actions)
         IN bulk_chunks(documents, chunk_size, i + chunk_size, outcomes,
                 IF outcomes[n] = "raises"
                 THEN [acc EXCEPT !.requests = sent,
                                  !.total_errors = Append(@, [chunk |-> n, error |-> "exception"])]
                 ELSE IF outcomes[n] = "rejected"
                 THEN [acc EXCEPT !.requests = sent,
                                  !.total_errors = @ \o [k \in 1..Len(chunk) |->
                                                     [chunk |-> n, error |-> "item"]]]
                 ELSE [acc EXCEPT !.requests = sent,
                                  !.total_success = @ + Len(chunk),
                                  !.os = IndexRequests(@, actions)])

\* "errors": total_errors[:10]
limit_errors(total_errors) == SubSeq(total_errors, 1, Min(ErrorLimit, Len(total_errors)))

\* EventIndexer.bulk_index(); outcomes[n] is what becomes of the n-th chunk
bulk_index(documents, chunk_size, outcomes) ==
    LET r == bulk_chunks(documents, chunk_size, 0, outcomes,
                         [total_success |-> 0, total_errors |-> <<>>,
                          requests |-> <<>>, os |-> OpenSearch])
    IN [success |-> r.total_success,
        failed |-> Len(r.total_errors),
        errors |-> limit_errors(r.total_errors),
        requests |-> r.requests,
        os |-> r.os]

NoResult == [success |-> 0, failed |-> 0, errors |-> <<>>]

\* ETLPipeline.process_batch(), the flush callback of the batcher: transform
\* and enrich every event, bulk_index the documents in one chunk
pipeline_process_batch(events, project_id, outcome) ==
    LET documents == [k \in 1..Len(events) |-> transform(events[k], project_id)]
        r == bulk_index(documents, DefaultChunkSize, <<outcome>>)
    IN /\ Cardinality(WithoutId(documents)) + auto_ids <= MaxAutoIds
       /\ store' = r.os.held
       /\ auto_ids' = r.os.auto_ids
       /\ index_result' = [success |-> r.success, failed |-> r.failed,
                           errors |-> r.errors]
       /\ UNCHANGED utc_day

\* ETLPipeline.process_event(), process_event_async() and, from the task
\* queue, process_event_dict(): transform, enrich, index_single
pipeline_process_event(event, project_id, os_ok) ==
    LET document == transform(event, project_id)
    IN /\ Cardinality(WithoutId(<<document>>)) + auto_ids <= MaxAutoIds
       /\ index_single(document, os_ok)
       /\ UNCHANGED utc_day

\* midnight, UTC
next_day ==
    /\ utc_day < LastDay
    /\ utc_day' = utc_day + 1
    /\ UNCHANGED <<store, auto_ids, index_result>>

\* an empty store on day 0
PipelineInit ==
    /\ utc_day = 0
    /\ store = {}
    /\ auto_ids = 0
    /\ index_result = NoResult

\* the documents of bulk_index() applied on its own: at most MaxBulk, each
\* with an event_id of its own; the chunk sizes tried give at most MaxChunks
\* bulk requests
MaxBulk == 14
MaxChunks == 4
DocumentIds == <<"d01", "d02", "d03", "d04", "d05", "d06", "d07", "d08",
                 "d09", "d10", "d11", "d12", "d13", "d14", "d15", "d16">>
Documents(n) ==
    [k \in 1..n |-> transform([event_id |-> DocumentIds[k],
                               timestamp |-> SecondsPerDay - 1], 1)]
ChunkSizes == {1, 2, 3, 4, DefaultChunkSize}

\* bulk_index(documents, chunk_size) called by itself
BulkIndex ==
    /\ call = NoCall
    /\ \E n \in 0..MaxBulk, chunk_size \in ChunkSizes :
          /\ ChunkCount(n, chunk_size) <= MaxChunks
          /\ \E outcomes \in [1..ChunkCount(n, chunk_size) -> ChunkOutcomes] :
                LET r == bulk_index(Documents(n), chunk_size, outcomes)
                IN  /\ call' = [op |-> "bulk_index", documents |-> Documents(n),
                                chunk_size |-> chunk_size, outcomes |-> outcomes]
                    /\ result' = [success |-> r.success, failed |-> r.failed,
                                  errors |-> r.errors, requests |-> r.requests]
                    /\ index_result' = [success |-> r.success, failed |-> r.failed,
                                        errors |-> r.errors]
                    /\ store' = r.os.held
                    /\ auto_ids' = r.os.auto_ids
    /\ UNCHANGED <<utc_day, gvars, rvars, kvars, pvars, svars>>

-----------------------------------------------------------------------------
(* The document of EventTransformer.transform() key by key (transformer.py). *)
(* A value is told by what the filter at the end of transform() and the      *)
(* truth tests before it can tell of it: None, the empty string, an empty    *)
(* mapping, an empty sequence, or anything else.                             *)

EmptyString == "''"
EmptyMap == "{}"
EmptySeq == "[]"
Full == "value"

\* Python's truth value of such a value; a SentryUser or SentryRequest without
\* any field set is an object and true
truthy(v) == v = Full

\* the events tried: SentryEvent fields (event_parser.py); a user, request,
\* contexts or sdk that is EmptyMap has none of the fields the transformer reads,
\* an exception that is EmptyMap has no values, a logentry that is "blank" is
\* a dict whose message is empty or missing
TransformEvents ==
    [level : {EmptyString, Full},
     release : {NoneId, EmptyString, Full},
     exception : {NoneId, EmptyMap, Full},
     message : {NoneId, EmptyString, Full},
     logentry : {NoneId, EmptyMap, "blank", Full},
     tags : {NoneId, EmptyMap, Full},
     user : {NoneId, EmptyMap, Full},
     contexts : {NoneId, EmptyMap, Full},
     request : {NoneId, EmptyMap, Full},
     sdk : {NoneId, EmptyMap, Full}]

\* the messages _extract_message() returns: f"{exc_type}: {exc_value}" of the
\* first exception, event.message, the message of the logentry, the literal
FromException == "Error: value"
FromMessage == "event.message"
FromLogentry == "logentry.message"
NoMessage == "No message"

\* `if event.logentry: return event.logentry.get("message", "")`, else the
\* literal; an empty dict is false
logentry_message(logentry) ==
    IF logentry = Full THEN FromLogentry
    ELSE IF logentry = "blank" THEN EmptyString
    ELSE NoMessage

\* _extract_message(): exception, then message, then logentry, then "No message"
extract_message(event) ==
    IF truthy(event.exception) THEN FromException
    ELSE IF truthy(event.message) THEN FromMessage
    ELSE logentry_message(event.logentry)

\* _extract_exception_type()
extract_exception_type(event) == IF truthy(event.exception) THEN Full ELSE NoneId

\* _transform_user(), _transform_request(), _transform_sdk(), _extract_browser(),
\* _extract_os(), _extract_device(), _extract_runtime(): `return {}` when the
\* source is missing, `return result if result else {}` otherwise
nested(source) == IF source = Full THEN Full ELSE EmptyMap

\* the dict literal of transform(), before the filter
DocumentKeys ==
    {"@timestamp", "received_at", "event_id", "project_id", "level", "release",
     "environment", "message", "exception_type", "user", "browser", "os",
     "device", "runtime", "request", "tags", "sdk", "fingerprint"}
document_literal(event) ==
    [k \in DocumentKeys |->
        CASE k = "level" -> event.level
          [] k = "release" -> event.release
          [] k = "message" -> extract_message(event)
          [] k = "exception_type" -> extract_exception_type(event)
          [] k = "user" -> nested(event.user)
          [] k \in {"browser", "os", "device", "runtime"} -> nested(event.contexts)
          [] k = "request" -> nested(event.request)
          [] k = "tags" -> IF truthy(event.tags) THEN event.tags ELSE EmptyMap
          [] k = "sdk" -> nested(event.sdk)
          [] OTHER -> Full]

\* return {k: v for k, v in document.items() if v is not None}
keep(v) == v # NoneId

\* EventTransformer.transform(), key by key
transform_document(event) ==
    LET document == document_literal(event)
    IN  [k \in {x \in DocumentKeys : keep(document[x])} |-> document[k]]

\* transform() is applied to one event
Transform ==
    /\ call = NoCall
    /\ \E event \in TransformEvents :
          /\ call' = [op |-> "transform", event |-> event]
          /\ result' = transform_document(event)
    /\ UNCHANGED not_fvars

-----------------------------------------------------------------------------
(* EventEnricher.enrich() (enricher.py) on a document, key by key.  A       *)
(* document is a function of its keys.  The user of a document is Full when *)
(* it holds a public ip, its raw_event is the name of the one header of the *)
(* request it embeds.                                                       *)

\* document["browser"], ["os"], ["device"] as _enrich_user_agent() sets them
FromUserAgent == "parsed"

\* document["geo"] as _enrich_geoip() sets it
FromGeoIp == "geo"

\* the header names tried
HeaderNames == {"User-Agent", "user-agent", "USER-AGENT", "Accept"}

\* key.lower()
lower(key) == IF key \in {"User-Agent", "user-agent", "USER-AGENT"} THEN "user-agent"
              ELSE "accept"

\* document.get(k), as a truth value
has(document, k) ==
    k \in DOMAIN document /\ document[k] \in {Full, FromUserAgent, FromGeoIp}

\* document[k] = v
put(document, k, v) ==
    [x \in DOMAIN document \cup {k} |-> IF x = k THEN v ELSE document[x]]

\* the surroundings of an enricher: whether a GeoIP reader was opened and
\* finds the ip, whether the user_agents package was importable, and for which
\* of browser, os and device the parser gives a family other than "Other"
Surroundings ==
    [geoip_reader : BOOLEAN, city_found : BOOLEAN, USER_AGENTS_AVAILABLE : BOOLEAN,
     families : SUBSET {"browser", "os", "device"}]

\* _enrich_geoip(): no reader, no ip, or a failed lookup leave the document
enrich_geoip(document, env) ==
    IF ~env.geoip_reader THEN document
    ELSE IF ~("user" \in DOMAIN document /\ document["user"] = Full) THEN document
    ELSE IF ~env.city_found THEN document
    ELSE put(document, "geo", FromGeoIp)

\* _extract_user_agent(): the value of a header of raw_event["request"] whose
\* name is user-agent in lower case, else None
extract_user_agent(document) ==
    IF "raw_event" \in DOMAIN document /\ document["raw_event"] \in HeaderNames
       /\ lower(document["raw_event"]) = "user-agent"
    THEN Full
    ELSE NoneId

\* _enrich_user_agent(): `if not document.get(k) and parsed.k.family != "Other"`
enrich_field_always(document, k, env) ==
    IF k \in env.families THEN put(document, k, FromUserAgent) ELSE document
enrich_field(document, k, env) ==
    IF ~has(document, k) /\ k \in env.families
    THEN put(document, k, FromUserAgent)
    ELSE document

\* _enrich_user_agent()
enrich_user_agent(document, env) ==
    IF ~env.USER_AGENTS_AVAILABLE THEN document
    ELSE IF has(document, "browser") /\ has(document, "os") THEN document
    ELSE IF extract_user_agent(document) = NoneId THEN document
    ELSE enrich_field(enrich_field(enrich_field(document, "browser", env),
                                   "os", env),
                      "device", env)

\* enrich()
enrich(document, env) == enrich_user_agent(enrich_geoip(document, env), env)

\* a document without the keys whose value is Absent
Present(fields) == [k \in {x \in DOMAIN fields : fields[x] # Absent} |-> fields[k]]

\* the documents enrich() is tried on
EnrichDocuments ==
    {Present(fields) : fields \in
        [browser : {Absent, EmptyMap, Full}, os : {Absent, EmptyMap, Full},
         device : {Absent, EmptyMap, Full}, user : {Absent, EmptyMap, Full},
         raw_event : {Absent, EmptyMap} \cup HeaderNames]}

\* enrich() is applied to a document, and again to what it returned
Enrich ==
    /\ call = NoCall
    /\ \E document \in EnrichDocuments, env \in Surroundings :
          /\ call' = [op |-> "enrich", document |-> document, env |-> env]
          /\ result' = [once |-> enrich(document, env),
                        twice |-> enrich(enrich(document, env), env)]
    /\ UNCHANGED not_fvars

\* the headers of the request of an event: none, or one of the name given
EventHeaders == {NoneId} \cup HeaderNames

\* ETLPipeline.process_event(), process_batch(): transform() then enrich(),
\* applied to one event whose request carries the headers given
TransformEnrich ==
    /\ call = NoCall
    /\ \E event \in TransformEvents, headers \in EventHeaders, env \in Surroundings :
          /\ event.request = Full
          /\ event.level = Full /\ event.release = Full /\ event.tags = Full
          /\ event.sdk = Full /\ event.logentry = NoneId
          /\ call' = [op |-> "pipeline", event |-> event, headers |-> headers,
                      env |-> env]
          /\ result' = enrich(transform_document(event), env)
    /\ UNCHANGED not_fvars

-----------------------------------------------------------------------------
(* The answer of the envelope route (endpoints.py).  An envelope is its      *)
(* header's event_id and its event and transaction items; an item's payload  *)
(* decodes to an event or fails to, and handing the event on succeeds or     *)
(* raises.                                                                   *)

MaxItems == 2

\* the ids an event or an envelope header carries, None being NoneId
AnswerIds == {NoneId, "e1", "e2"}

\* uuid.uuid4(): the n-th id drawn
uuid4(n) == IF n = 1 THEN "uuid1" ELSE IF n = 2 THEN "uuid2" ELSE "uuid3"

\* the truth value Python's `or` reads of an Optional[str]
falsy(x) == x = NoneId \/ x = ""

\* str() of an Optional[str], as an f-string applies it
str(x) == IF x = NoneId THEN "None" ELSE x

\* the content of a response: the JSON value of its "id" member
JsonNull == [json |-> "null", text |-> ""]
JsonString(text) == [json |-> "string", text |-> text]

\* the loop of receive_envelope(): the id of every payload that
\* event_parser.parse decodes, appended before _process_event is awaited
RECURSIVE envelope_event_ids(_, _, _)
envelope_event_ids(event_payloads, header_event_id, drawn) ==
    IF event_payloads = <<>> THEN <<>>
    ELSE LET payload == Head(event_payloads)
             rest == Tail(event_payloads)
         IN  IF ~payload.parses
             THEN envelope_event_ids(rest, header_event_id, drawn)
             ELSE IF ~falsy(payload.event_id)
             THEN <<payload.event_id>>
                  \o envelope_event_ids(rest, header_event_id, drawn)
             ELSE IF ~falsy(header_event_id)
             THEN <<header_event_id>>
                  \o envelope_event_ids(rest, header_event_id, drawn)
             ELSE <<uuid4(drawn + 1)>>
                  \o envelope_event_ids(rest, header_event_id, drawn + 1)

\* receive_envelope() past its checks: the status and the "id" it answers
envelope_response(body) ==
    IF body.kind = "empty" THEN [status |-> 200, id |-> JsonNull]
    ELSE IF body.kind = "invalid" THEN [status |-> 400, id |-> JsonNull]
    ELSE LET event_ids == envelope_event_ids(body.event_payloads,
                                             body.header_event_id, 0)
             response_id == IF event_ids # <<>> THEN event_ids[1]
                            ELSE body.header_event_id
         IN  [status |-> 200, id |-> JsonString(str(response_id))]

\* the event payloads of an envelope
EventPayloads ==
    UNION {[1..n -> [event_id : AnswerIds, parses : BOOLEAN, handed : BOOLEAN]] :
              n \in 0..MaxItems}

\* the bodies of the envelope route: empty, one that envelope_parser.parse
\* raises on, or an envelope
EnvelopeRequests ==
    {[kind |-> "empty"], [kind |-> "invalid"]}
    \cup {[kind |-> "envelope", header_event_id |-> h, event_payloads |-> ps] :
             h \in {NoneId, "h1"}, ps \in EventPayloads}

ReceiveEnvelope ==
    /\ call = NoCall
    /\ \E body \in EnvelopeRequests :
          /\ call' = [op |-> "receive_envelope", body |-> body]
          /\ result' = envelope_response(body)
    /\ UNCHANGED not_fvars

-----------------------------------------------------------------------------
(* A valid event and its answer (endpoints.py, batcher.py, pipeline.py).     *)
(* The route answers when `await _process_event` is over: at once when the   *)
(* event went to the task queue, into the buffer or through the pipeline,    *)
(* and after the flush callback when add() flushed.  `call` is the request   *)
(* last received, `result` its answer once it is sent.                       *)

\* what OpenSearch does with a request: it indexes, it rejects every document
\* (a 5xx item), or it cannot be reached and the client raises
OpenSearchStates == {"ok", "rejects", "unreachable"}

\* how the flush callback ends for each: process_batch() returns, bulk_index
\* having caught what helpers.bulk raised, or get_pipeline() raises in it
CallbackOutcomes ==
    {<<"ok", "done">>, <<"rejects", "done">>, <<"unreachable", "done">>,
     <<"unreachable", "raised">>}

\* the handler is suspended in the flush callback
Pending == [op |-> "pending"]

\* return Response(content=f'{{"id": "{event_id}"}}'), or HTTPException
Answered(status, id, os) == [op |-> "answered", status |-> status, id |-> id, os |-> os]

\* a store or envelope request with one valid event arrives; os is what
\* _process_event_sync meets when the event goes through the pipeline at once
ingest(t, req, os) ==
    /\ receive(t, req)
    /\ call' = [op |-> "ingest", route |-> req.route, id |-> next_id]
    /\ result' = IF pc'[t] # "idle" THEN Pending
                 ELSE Answered(response'.status, next_id,
                               IF pipeline_direct' # pipeline_direct THEN os ELSE "-")

\* the flush callback ends, flush() and add() return and the route answers
ingest_callback_ends(t, outcome) ==
    /\ result = Pending
    /\ IF outcome[2] = "done" THEN callback_returns(t) ELSE callback_raises(t)
    /\ result' = Answered(response.status, call.id, outcome[1])
    /\ UNCHANGED call

-----------------------------------------------------------------------------
(* The loop of receive_envelope() over the event payloads of one envelope    *)
(* (endpoints.py).  A payload decodes (event_parser.parse returns) or not;   *)
(* `await _process_event` may suspend the handler in a flush callback, and   *)
(* other requests are served meanwhile.  `call` is the envelope request in   *)
(* progress: its payloads, the position of the next one, and what was done   *)
(* with the ones before; `result` is its answer once it is sent.             *)

\* the event payloads of an envelope, each told by whether it decodes
PayloadLists == UNION {[1..n -> BOOLEAN] : n \in 0..MaxItems}

\* the handler of the envelope request, and the handler of the store requests
\* served beside it
EnvelopeHandler == "r1"
StoreHandler == "r2"

\* `except Exception: ... continue`: the loop goes on with the next payload
after_item_failure_returns(index, n) == n + 1
after_item_failure(index, n) == index + 1

\* what the loop did with a payload: the id of the document handed to
\* _process_event (None when the payload did not decode) and whether
\* _process_event raised
Done(position, id, raised) == [position |-> position, id |-> id, raised |-> raised]

\* an envelope that envelope_parser.parse accepts arrives and passes the checks
envelope_arrives(payloads) ==
    /\ phase = "serving"
    /\ call.op # "envelope" \/ result # Pending
    /\ call' = [op |-> "envelope", payloads |-> payloads, index |-> 1, done |-> <<>>]
    /\ result' = Pending
    /\ UNCHANGED not_fvars

\* one turn of the loop: event_parser.parse(payload), event_ids.append,
\* await _process_event
envelope_item(broker_ok, batcher_ok) ==
    LET t == EnvelopeHandler
        n == Len(call.payloads)
    IN  /\ call.op = "envelope" /\ result = Pending
        /\ pc[t] = "idle"
        /\ call.index <= n
        /\ IF ~call.payloads[call.index]
           THEN /\ call' = [call EXCEPT
                               !.index = after_item_failure(call.index, n),
                               !.done = Append(@, Done(call.index, None, FALSE))]
                /\ UNCHANGED <<bvars, avars>>
           ELSE /\ next_id <= MaxDocs
                /\ process_event(t, broker_ok, batcher_ok)
                /\ call' = [call EXCEPT
                               !.index = IF process_event_raises(broker_ok)
                                         THEN after_item_failure(call.index, n)
                                         ELSE call.index + 1,
                               !.done = Append(@, Done(call.index, next_id,
                                                       process_event_raises(broker_ok)))]
                /\ UNCHANGED <<batch_size, batch_timeout_seconds, cancel_requested,
                               stop_added, phase, state_batcher,
                               state_opensearch, client_closed, response>>
        /\ UNCHANGED <<result, tvars, cvars, rvars, kvars, pvars, dvars, svars>>

\* the loop is over: return Response(content=f'{{"id": "{response_id}"}}')
envelope_answers ==
    /\ call.op = "envelope" /\ result = Pending
    /\ pc[EnvelopeHandler] = "idle"
    /\ call.index > Len(call.payloads)
    /\ result' = [op |-> "answered", status |-> 200]
    /\ UNCHANGED <<call, not_fvars>>

-----------------------------------------------------------------------------
(* The size limit of the envelope, store and security routes                 *)
(* (validate_request_size, endpoints.py).  The Content-Length header is      *)
(* absent, empty, not a number, or a number that need not be the length of   *)
(* the body sent.                                                            *)

\* the lengths tried, of bodies and in headers
SizesTried == {0, 2, max_request_size - 1, max_request_size, max_request_size + 1}

\* request.headers.get("content-length")
ContentLengthHeaders ==
    {[kind |-> "absent"], [kind |-> "empty"], [kind |-> "unparseable"]}
    \cup {[kind |-> "number", value |-> n] : n \in SizesTried}

\* `if content_length:` and int(content_length), ValueError passed over: the
\* number the header is compared as, None when there is none
content_length_value(h) == IF h.kind = "number" THEN h.value ELSE None

\* `body = await request.body()` is reached: the checks before it passed
body_read(req) ==
    /\ validate_project(req.project)
    /\ dsn_auth_validate_key(req.key)
    /\ ~(req.content_length # None /\ req.content_length > max_request_size)

SizedRoutes == {"envelope", "store", "security"}

\* a request arrives at a route with a size limit: the status of the
\* HTTPException raised (0: none) and whether the body was read
sized_request(route, key, h, len) ==
    LET req == [route |-> route, project |-> 1, key |-> key,
                content_length |-> content_length_value(h),
                body |-> [kind |-> "event", len |-> len]]
    IN  /\ call = NoCall
        /\ call' = [op |-> "sized_request", header |-> h, req |-> req]
        /\ result' = [status |-> rejection(req), body_read |-> body_read(req)]
        /\ UNCHANGED not_fvars

-----------------------------------------------------------------------------
(* The readiness probe (main.py).  The cluster health request raises or      *)
(* answers a map whose "status" is green, yellow, red, another string or     *)
(* missing; the broker answers the ping or the ping raises.                  *)

\* what client.cluster.health() does: "raises", or the "status" of the map
\* it returns (Absent: the map has no such key)
ClusterHealth == {"raises", Absent, "green", "yellow", "red", "blue"}

\* health.get("status", "unknown")
get_status(health) == IF health = Absent THEN "unknown" ELSE health

\* checks["opensearch"]
opensearch_check(health) ==
    IF ~state_opensearch THEN [status |-> "not_initialized", cluster_status |-> Absent]
    ELSE IF health = "raises" THEN [status |-> "error", cluster_status |-> Absent]
    ELSE LET os_status == get_status(health)
         IN  [status |-> IF os_status \in {"green", "yellow"} THEN "ok"
                         ELSE "degraded",
              cluster_status |-> os_status]

\* is_ready after the OpenSearch check: cleared when the client is not in
\* app.state, when the health request raises and when the status is red
opensearch_ready(health) ==
    /\ state_opensearch
    /\ health # "raises"
    /\ get_status(health) # "red"

\* checks["redis"], set only when Celery is enabled
redis_check(ping) ==
    IF ~use_celery THEN Absent ELSE IF ping THEN "ok" ELSE "error"

\* is_ready after the Redis check
redis_ready(ping) == use_celery => ping

\* checks["batcher"], set only when app.state has a batcher
batcher_check ==
    IF ~state_batcher THEN [status |-> Absent, pending_events |-> 0]
    ELSE [status |-> IF running THEN "ok" ELSE "stopped",
          pending_events |-> Len(buffer)]

\* readiness_check(): GET /ready
readiness_check(health, ping) ==
    /\ phase = "serving"
    /\ call' = [op |-> "ready", health |-> health, ping |-> ping]
    /\ result' = [status |-> IF opensearch_ready(health) /\ redis_ready(ping)
                             THEN 200 ELSE 503,
                  checks |-> [opensearch |-> opensearch_check(health),
                              redis |-> redis_check(ping),
                              batcher |-> batcher_check]]
    /\ UNCHANGED not_fvars

-----------------------------------------------------------------------------
(* The pipeline singleton (etl/pipeline.py, tasks/celery_tasks.py).  Each   *)
(* thread calls get_pipeline() of one of the two modules once; a thread can *)
(* be preempted between any two of the steps below.                         *)

Threads == {"w1", "w2", "w3"}

\* the module whose get_pipeline() a thread calls
Entries == {"etl", "tasks"}

\* ETLPipeline.__init__(): self.transformer, self.enricher, self.indexer
Attributes == <<"transformer", "enricher", "indexer">>

\* `if _pipeline is None:` before the lock is taken
first_check(p) == p = None

\* `if _pipeline is None:` under the lock
second_check_skipped(p) == TRUE
second_check(p) == p = None

goto(t, p) == thread' = [thread EXCEPT ![t].pc = p]

\* a thread calls get_pipeline() of celery_tasks.py or of pipeline.py
get_pipeline(t, entry) ==
    /\ thread[t].pc = "idle"
    /\ thread' = [thread EXCEPT ![t].entry = entry,
                                ![t].pc = IF entry = "tasks" THEN "tasks_check"
                                          ELSE "etl_check"]
    /\ UNCHANGED <<etl_pipeline, etl_lock, tasks_pipeline, tasks_lock, pipelines,
                   built>>

\* celery_tasks.get_pipeline(): if _pipeline is None
tasks_check(t) ==
    /\ thread[t].pc = "tasks_check"
    /\ goto(t, IF first_check(tasks_pipeline) THEN "tasks_acquire" ELSE "tasks_return")
    /\ UNCHANGED <<etl_pipeline, etl_lock, tasks_pipeline, tasks_lock, pipelines,
                   built>>

\* celery_tasks.get_pipeline(): with _pipeline_lock
tasks_acquire(t) ==
    /\ thread[t].pc = "tasks_acquire"
    /\ tasks_lock = "free"
    /\ tasks_lock' = t
    /\ goto(t, "tasks_recheck")
    /\ UNCHANGED <<etl_pipeline, etl_lock, tasks_pipeline, pipelines, built>>

\* celery_tasks.get_pipeline(): if _pipeline is None, under the lock; then the
\* call of pipeline.get_pipeline()
tasks_recheck(t) ==
    /\ thread[t].pc = "tasks_recheck"
    /\ goto(t, IF second_check(tasks_pipeline) THEN "etl_check" ELSE "tasks_release")
    /\ UNCHANGED <<etl_pipeline, etl_lock, tasks_pipeline, tasks_lock, pipelines,
                   built>>

\* celery_tasks.get_pipeline(): _pipeline = _get_pipeline()
tasks_assign(t) ==
    /\ thread[t].pc = "tasks_assign"
    /\ tasks_pipeline' = thread[t].value
    /\ goto(t, "tasks_release")
    /\ UNCHANGED <<etl_pipeline, etl_lock, tasks_lock, pipelines, built>>

\* celery_tasks.get_pipeline(): the with block ends
tasks_release(t) ==
    /\ thread[t].pc = "tasks_release"
    /\ tasks_lock' = "free"
    /\ goto(t, "tasks_return")
    /\ UNCHANGED <<etl_pipeline, etl_lock, tasks_pipeline, pipelines, built>>

\* what a caller holds once get_pipeline() has returned p: the object and the
\* attributes it has at that moment
received(t, p) ==
    thread' = [thread EXCEPT ![t].pc = "done", ![t].got = p,
                             ![t].seen = IF p = None THEN {} ELSE pipelines[p]]

\* celery_tasks.get_pipeline(): return _pipeline
tasks_return(t) ==
    /\ thread[t].pc = "tasks_return"
    /\ received(t, tasks_pipeline)
    /\ UNCHANGED <<etl_pipeline, etl_lock, tasks_pipeline, tasks_lock, pipelines,
                   built>>

\* pipeline.get_pipeline(): if _pipeline is None
etl_check(t) ==
    /\ thread[t].pc = "etl_check"
    /\ goto(t, IF first_check(etl_pipeline) THEN "etl_acquire" ELSE "etl_return")
    /\ UNCHANGED <<etl_pipeline, etl_lock, tasks_pipeline, tasks_lock, pipelines,
                   built>>

\* pipeline.get_pipeline(): with _pipeline_lock
etl_acquire(t) ==
    /\ thread[t].pc = "etl_acquire"
    /\ etl_lock = "free"
    /\ etl_lock' = t
    /\ goto(t, "etl_recheck")
    /\ UNCHANGED <<etl_pipeline, tasks_pipeline, tasks_lock, pipelines, built>>

\* pipeline.get_pipeline(): if _pipeline is None, under the lock
etl_recheck(t) ==
    /\ thread[t].pc = "etl_recheck"
    /\ IF second_check(etl_pipeline)
       THEN goto(t, "etl_components")
       ELSE thread' = [thread EXCEPT ![t].pc = "etl_release", ![t].late = TRUE]
    /\ UNCHANGED <<etl_pipeline, etl_lock, tasks_pipeline, tasks_lock, pipelines,
                   built>>

\* pipeline.get_pipeline(): EventTransformer(), get_enricher(...) and
\* EventIndexer(client=get_opensearch_client(settings), ...), one per step
etl_components(t) ==
    /\ thread[t].pc = "etl_components"
    /\ LET n == thread[t].value + 1
       IN  /\ built' = [built EXCEPT ![Attributes[n]] = @ + 1]
           /\ thread' = [thread EXCEPT
                 ![t].value = IF n = Len(Attributes) THEN 0 ELSE n,
                 ![t].pc = IF n = Len(Attributes) THEN "etl_new" ELSE "etl_components"]
    /\ UNCHANGED <<etl_pipeline, etl_lock, tasks_pipeline, tasks_lock, pipelines>>

\* ETLPipeline(...): the object is made, then __init__ sets its attributes one
\* by one; the name _pipeline is not bound to it yet
etl_new(t) ==
    /\ thread[t].pc = "etl_new"
    /\ pipelines' = Append(pipelines, {})
    /\ thread' = [thread EXCEPT ![t].value = Len(pipelines) + 1, ![t].pc = "etl_init"]
    /\ UNCHANGED <<etl_pipeline, etl_lock, tasks_pipeline, tasks_lock, built>>

etl_init(t) ==
    /\ thread[t].pc = "etl_init"
    /\ LET obj == thread[t].value
           n == Cardinality(pipelines[obj]) + 1
       IN  /\ pipelines' = [pipelines EXCEPT ![obj] = @ \cup {Attributes[n]}]
           /\ goto(t, IF n = Len(Attributes) THEN "etl_assign" ELSE "etl_init")
    /\ UNCHANGED <<etl_pipeline, etl_lock, tasks_pipeline, tasks_lock, built>>

\* pipeline.get_pipeline(): _pipeline = ETLPipeline(...), once __init__ returned
etl_assign(t) ==
    /\ thread[t].pc = "etl_assign"
    /\ etl_pipeline' = thread[t].value
    /\ goto(t, "etl_release")
    /\ UNCHANGED <<etl_lock, tasks_pipeline, tasks_lock, pipelines, built>>

\* pipeline.get_pipeline(): the with block ends
etl_release(t) ==
    /\ thread[t].pc = "etl_release"
    /\ etl_lock' = "free"
    /\ goto(t, "etl_return")
    /\ UNCHANGED <<etl_pipeline, tasks_pipeline, tasks_lock, pipelines, built>>

\* pipeline.get_pipeline(): return _pipeline, to the caller or to
\* celery_tasks.get_pipeline()
etl_return(t) ==
    /\ thread[t].pc = "etl_return"
    /\ IF thread[t].entry = "tasks"
       THEN thread' = [thread EXCEPT ![t].value = etl_pipeline, ![t].pc = "tasks_assign"]
       ELSE received(t, etl_pipeline)
    /\ UNCHANGED <<etl_pipeline, etl_lock, tasks_pipeline, tasks_lock, pipelines,
                   built>>

\* the modules are imported: _pipeline = None, _pipeline_lock = Lock()
SingletonInit ==
    /\ etl_pipeline = None
    /\ etl_lock = "free"
    /\ tasks_pipeline = None
    /\ tasks_lock = "free"
    /\ pipelines = <<>>
    /\ built = [a \in Range(Attributes) |-> 0]
    /\ thread = [t \in Threads |->
                    [pc |-> "idle", entry |-> "-", value |-> 0, late |-> FALSE,
                     got |-> None, seen |-> {}]]

-----------------------------------------------------------------------------
(* The components not in use *)

\* the pipeline, idle
PipelineOff == PipelineInit

\* no key under validation
AuthOff ==
    /\ auth_key = Absent
    /\ auth_result = "none"

\* no body under parsing
ParseOff == ParseInit({<<>>})

\* no handler called
CallOff ==
    /\ call = NoCall
    /\ result = NoCall

\* every component not in use, but the ones named
OffBut(components) ==
    /\ IF "call" \in components THEN TRUE ELSE CallOff
    /\ IF "rate" \in components THEN TRUE ELSE RateInit({1}, {1})
    /\ IF "auth" \in components THEN TRUE ELSE AuthOff
    /\ IF "parser" \in components THEN TRUE ELSE ParseOff
    /\ IF "pipeline" \in components THEN TRUE ELSE PipelineOff
    /\ IF "singleton" \in components THEN TRUE ELSE SingletonInit

\* the components beside the batcher and the application, not in use
XOff == OffBut({})

-----------------------------------------------------------------------------
(* The batcher on its own: handlers add, the main task starts, flushes and *)
(* stops, the flush loop and the callbacks run, time passes.               *)

BatcherInit(sizes, timeouts) ==
    /\ batch_size \in sizes
    /\ batch_timeout_seconds \in timeouts
    /\ buffer = <<>>
    /\ first_event_time = None
    /\ running = FALSE
    /\ flush_task = "none"
    /\ sleep_left = 0
    /\ cancel_requested = FALSE
    /\ lock = "free"
    /\ pc = [t \in Tasks |-> "idle"]
    /\ calls = <<>>
    /\ next_id = 1
    /\ stop_added = None

TimerIdle ==
    /\ quiet = None
    /\ spread = FALSE

\* the batcher and the application, not in use
GatewayOff ==
    /\ BatcherInit({1}, {1})
    /\ TimerIdle
    /\ AppOff

Init ==
    /\ BatcherInit(BatchSizes, Timeouts)
    /\ TimerIdle
    /\ AppOff
    /\ XOff

Next ==
    \/ start /\ UNCHANGED <<tvars, appvars>>
    \/ \E t \in Handlers : add(t) /\ UNCHANGED <<tvars, appvars>>
    \/ explicit_flush("main") /\ UNCHANGED <<tvars, appvars>>
    \/ stop("main") /\ UNCHANGED <<tvars, appvars>>
    \/ stop_resume("main") /\ UNCHANGED <<tvars, appvars>>
    \/ \E t \in Tasks : callback_returns(t) /\ UNCHANGED <<tvars, appvars>>
    \/ \E t \in Tasks : callback_raises(t) /\ UNCHANGED <<tvars, appvars>>
    \/ flush_loop_wake /\ UNCHANGED <<tvars, appvars>>
    \/ flush_loop_cancelled /\ UNCHANGED <<tvars, appvars>>
    \/ loop_callback_returns /\ UNCHANGED <<tvars, appvars>>
    \/ loop_callback_raises /\ UNCHANGED <<tvars, appvars>>
    \/ Tick /\ UNCHANGED <<tvars, appvars>>

Spec == Init /\ [][Next]_vars

-----------------------------------------------------------------------------
(* The timeout scenario: a started batcher whose batch_size is never       *)
(* reached, so that only the flush loop empties the buffer.  The callbacks *)
(* end, the flush loop is scheduled and time passes: weak fairness.        *)

TimerInit ==
    /\ BatcherInit({MaxDocs + 1}, Timeouts)
    /\ TimerIdle
    /\ AppOff
    /\ XOff

TimerStart == start /\ UNCHANGED <<tvars, appvars>>

TimerAdd(t) ==
    /\ running
    /\ add(t)
    /\ quiet' = 0
    /\ spread' = (spread \/ (quiet # None /\ quiet > 0))
    /\ UNCHANGED appvars

TimerWake == flush_loop_wake /\ UNCHANGED <<tvars, appvars>>

TimerCallbackEnds ==
    (loop_callback_returns \/ loop_callback_raises) /\ UNCHANGED <<tvars, appvars>>

TimerTick ==
    /\ Tick
    /\ quiet' = Older(quiet)
    /\ UNCHANGED <<spread, appvars>>

TimerNext ==
    \/ TimerStart
    \/ \E t \in Handlers : TimerAdd(t)
    \/ TimerWake
    \/ TimerCallbackEnds
    \/ TimerTick

SpecTimer ==
    /\ TimerInit /\ [][TimerNext]_vars
    /\ WF_vars(TimerWake) /\ WF_vars(TimerCallbackEnds) /\ WF_vars(TimerTick)

-----------------------------------------------------------------------------
(* The application: lifespan starts it, requests arrive at the ingestion   *)
(* routes while it serves, the batcher runs, lifespan shuts it down.       *)

\* the requests of the lifecycle: events for the store and envelope routes
AppRequests ==
    {req \in Requests :
        /\ req.route \in {"store", "envelope"}
        /\ req.project = 1
        /\ req.key = "key1"
        /\ req.body.kind = "event" /\ req.body.len <= max_request_size}

AppInitial ==
    /\ BatcherInit({1, 2}, {1})
    /\ TimerIdle
    /\ Settings(CeleryModes, {{}}, {<<TRUE, {}>>})
    /\ AppInit
    /\ XOff

AppStartup == \E os_ok \in BOOLEAN : lifespan_startup(os_ok) /\ UNCHANGED <<tvars, cvars, xvars>>

AppReceive ==
    \E t \in Handlers, req \in AppRequests :
        receive(t, req) /\ UNCHANGED <<tvars, cvars, xvars>>

AppCallbackReturns == \E t \in Tasks : callback_returns(t) /\ UNCHANGED <<tvars, appvars>>

AppCallbackRaises == \E t \in Tasks : callback_raises(t) /\ UNCHANGED <<tvars, appvars>>

AppFlushLoop ==
    \/ flush_loop_wake /\ UNCHANGED <<tvars, appvars>>
    \/ flush_loop_cancelled /\ UNCHANGED <<tvars, appvars>>
    \/ loop_callback_returns /\ UNCHANGED <<tvars, appvars>>
    \/ loop_callback_raises /\ UNCHANGED <<tvars, appvars>>

AppTick == Tick /\ UNCHANGED <<tvars, appvars>>

AppShutdown == lifespan_shutdown /\ UNCHANGED <<tvars, cvars, xvars>>

AppStopResumes == stop_resume("main") /\ UNCHANGED <<tvars, appvars>>

AppShutdownEnds == shutdown_batcher_returns /\ UNCHANGED <<tvars, cvars, xvars>>

AppNext ==
    \/ AppStartup
    \/ AppReceive
    \/ AppCallbackReturns
    \/ AppCallbackRaises
    \/ AppFlushLoop
    \/ AppTick
    \/ AppShutdown
    \/ AppStopResumes
    \/ AppShutdownEnds

SpecApp == AppInitial /\ [][AppNext]_vars

-----------------------------------------------------------------------------
(* The ingestion routes: the application serves, requests of every kind    *)
(* arrive and the callbacks of the flushes they cause end.                 *)

RecvInitial ==
    /\ BatcherInit({2}, {1})
    /\ TimerIdle
    /\ Settings(CeleryModes, {{}, {1}}, AuthModes)
    /\ AppInit
    /\ XOff

\* one handler at a time: the checks of a request do not suspend
RecvHandlers == {"r1"}

RecvReceive ==
    \E t \in RecvHandlers, req \in Requests :
        receive(t, req) /\ UNCHANGED <<tvars, cvars, xvars>>

RecvStartup == lifespan_startup(TRUE) /\ UNCHANGED <<tvars, cvars, xvars>>

RecvNext ==
    \/ RecvStartup
    \/ RecvReceive
    \/ AppCallbackReturns
    \/ AppCallbackRaises

SpecRecv == RecvInitial /\ [][RecvNext]_vars

-----------------------------------------------------------------------------
(* The rate limiter: requests of two clients arrive at limited and at      *)
(* bypassed paths, time passes.                                            *)

RateInitial ==
    /\ GatewayOff
    /\ OffBut({"rate"})
    /\ RateInit(RateLimits, RateWindows)

RateDispatch ==
    \E c \in Clients, path \in Paths :
        /\ dispatch(c, path)
        /\ UNCHANGED <<requests_per_window, window_seconds, rate_lock, rate_thread>>

RateNext ==
    \/ RateDispatch /\ UNCHANGED not_rvars
    \/ RateTick /\ UNCHANGED <<requests_per_window, window_seconds, rate_lock,
                               rate_thread, not_rvars>>

SpecRate == RateInitial /\ [][RateNext]_vars

-----------------------------------------------------------------------------
(* The rate limiter, each request kept with the windows it found: requests *)
(* of two clients arrive on the limited and the exempt paths, time passes. *)

WindowInitial ==
    /\ GatewayOff
    /\ OffBut({"rate"})
    /\ RateInit(RateLimits, RateWindows)

WindowRequest ==
    \E c \in Clients, path \in Paths :
        /\ dispatch_request(c, path)
        /\ UNCHANGED <<requests_per_window, window_seconds, rate_lock, rate_thread>>

WindowTick ==
    /\ RateTick
    /\ UNCHANGED <<requests_per_window, window_seconds, rate_lock, rate_thread>>

WindowNext ==
    \/ WindowRequest /\ UNCHANGED <<gvars, kvars, pvars, dvars, svars>>
    \/ WindowTick /\ UNCHANGED not_rvars

SpecWindow == WindowInitial /\ [][WindowNext]_vars

-----------------------------------------------------------------------------
(* The rate limiter under threads: requests of two clients are counted by   *)
(* two threads, each step of _is_rate_limited() on its own, time passes.    *)

LimiterInitial ==
    /\ GatewayOff
    /\ OffBut({"rate"})
    /\ RateInit(RateLimits, RateWindows)

LimiterEnter == \E t \in Handlers, c \in Clients : limiter_enter(t, c)
LimiterAcquire == \E t \in Handlers : limiter_acquire(t)
LimiterWrite == \E t \in Handlers : limiter_write(t)

LimiterNext ==
    \/ LimiterEnter /\ UNCHANGED <<requests_per_window, window_seconds, not_rvars>>
    \/ LimiterAcquire /\ UNCHANGED <<requests_per_window, window_seconds, not_rvars>>
    \/ LimiterWrite /\ UNCHANGED <<requests_per_window, window_seconds, not_rvars>>
    \/ limiter_tick /\ UNCHANGED <<requests_per_window, window_seconds, not_rvars>>

SpecLimiter == LimiterInitial /\ [][LimiterNext]_vars

-----------------------------------------------------------------------------
(* Key validation: one key is validated under every setting of             *)
(* auth_required and of the allow-list.                                    *)

AuthInitial ==
    /\ BatcherInit({1}, {1})
    /\ TimerIdle
    /\ Settings({<<FALSE, FALSE>>}, {{}}, BOOLEAN \X (SUBSET ListedKeys))
    /\ AppInit
    /\ OffBut({"auth"})
    /\ auth_key \in Keys
    /\ auth_result = "none"

\* authenticate_request(): dsn_auth.validate_key(public_key)
authenticate ==
    /\ auth_result = "none"
    /\ auth_result' = IF dsn_auth_validate_key(auth_key) THEN "valid" ELSE "invalid"
    /\ UNCHANGED auth_key

AuthNext ==
    authenticate /\ UNCHANGED not_kvars

SpecAuth == AuthInitial /\ [][AuthNext]_vars

-----------------------------------------------------------------------------
(* The envelope parser: parse() is applied to one body.                    *)

ParseInitial ==
    /\ GatewayOff
    /\ OffBut({"parser"})
    /\ ParseInit(EnvelopeBodies(Tokens, MaxBody))

ParseNext ==
    \/ parse_start /\ UNCHANGED not_pvars
    \/ parse_item /\ UNCHANGED not_pvars
    \/ parse_return /\ UNCHANGED not_pvars

SpecParse == ParseInitial /\ [][ParseNext]_vars

-----------------------------------------------------------------------------
(* parse() called again and again, in turn on the empty body and on a body *)
(* of at most MaxRunBody tokens: newlines, lines that are not JSON, item    *)
(* headers without and with a length.  A call is synchronous: a turn of the *)
(* item loop that can be taken is taken, and so is the return after it.     *)

MaxRunBody == 5

RunTokens == {NL, "x", "{}", "{\"length\":2}"}

RunInitial ==
    /\ GatewayOff
    /\ OffBut({"parser"})
    /\ ParseInit({<<>>})

\* the next call of parse(), once the last one has ended
parse_again ==
    /\ parse_state \in {"returned", "raised"}
    /\ raw_body' \in IF raw_body = <<>>
                      THEN EnvelopeBodies(RunTokens, MaxRunBody) ELSE {<<>>}
    /\ envelope' = NoEnvelope
    /\ lines' = <<>>
    /\ line_index' = 0
    /\ items' = <<>>
    /\ header' = "unset"
    /\ parse_state' = "ready"
    /\ parse_error' = ""

RunNext ==
    \/ parse_again /\ UNCHANGED not_pvars
    \/ ParseNext

SpecParseRuns ==
    /\ RunInitial
    /\ [][RunNext]_vars
    /\ WF_pvars(parse_item)
    /\ WF_pvars(parse_return)

-----------------------------------------------------------------------------
(* The envelope parser on well-formed envelopes: parse() is applied to the *)
(* encoding of a header and one or two items.  A payload is at most        *)
(* MaxPayload bytes; it holds newline bytes only if its length is declared. *)

MaxPayload == 2

PayloadBytes == {"x", "1", NL}

ItemCounts == {1, 2}

BytesUpTo(bytes, n) == UNION {[1..k -> bytes] : k \in 0..n}

WellFormedItems ==
    {[declared |-> TRUE, payload |-> p] : p \in BytesUpTo(PayloadBytes, MaxPayload)}
    \cup {[declared |-> FALSE, payload |-> p] :
              p \in BytesUpTo(PayloadBytes \ {NL}, MaxPayload)}

WellFormedEnvelopes ==
    {[items |-> its, trailing |-> t] :
        its \in UNION {[1..n -> WellFormedItems] : n \in ItemCounts}, t \in BOOLEAN}

EnvelopeInitial ==
    /\ GatewayOff
    /\ OffBut({"parser"})
    /\ envelope \in WellFormedEnvelopes
    /\ raw_body = Encode(envelope)
    /\ lines = <<>>
    /\ line_index = 0
    /\ items = <<>>
    /\ header = "unset"
    /\ parse_state = "ready"
    /\ parse_error = ""

SpecEnvelope == EnvelopeInitial /\ [][ParseNext]_vars

-----------------------------------------------------------------------------
(* The envelope parser on lines that are no JSON texts: parse() is applied *)
(* to the bodies of at most MaxRecovery tokens, a token being a newline, a  *)
(* byte that is no JSON text, or an item header without a length.           *)

MaxRecovery == 7

RecoveryTokens == {NL, "x", "{}"}

RecoveryInitial ==
    /\ GatewayOff
    /\ OffBut({"parser"})
    /\ ParseInit(EnvelopeBodies(RecoveryTokens, MaxRecovery))

SpecRecovery == RecoveryInitial /\ [][ParseNext]_vars

-----------------------------------------------------------------------------
(* The pipeline: events reach it one by one from the task queue or from an *)
(* ingestion route, or in a batch from the batcher; midnight passes.       *)

PipelineInitial ==
    /\ GatewayOff
    /\ OffBut({"pipeline"})
    /\ PipelineInit

PipelineBatches == UNION {[1..n -> PipelineEvents] : n \in 1..2}

PipelineEvent ==
    \E event \in PipelineEvents, os_ok \in BOOLEAN :
        pipeline_process_event(event, 1, os_ok)

PipelineBatch ==
    \E events \in PipelineBatches, outcome \in ChunkOutcomes :
        pipeline_process_batch(events, 1, outcome)

PipelineNext ==
    \/ PipelineEvent /\ UNCHANGED not_dvars
    \/ PipelineBatch /\ UNCHANGED not_dvars
    \/ next_day /\ UNCHANGED not_dvars

SpecPipeline == PipelineInitial /\ [][PipelineNext]_vars

-----------------------------------------------------------------------------
(* The envelope route: requests that passed the checks are answered.       *)

AnswerInitial ==
    /\ GatewayOff
    /\ OffBut({})

AnswerNext == ReceiveEnvelope

SpecAnswer == AnswerInitial /\ [][AnswerNext]_vars

-----------------------------------------------------------------------------
(* The readiness probe: lifespan starts the application with or without a  *)
(* reachable OpenSearch, events arrive, and /ready is asked.               *)

ReadyInitial ==
    /\ BatcherInit({2}, {1})
    /\ TimerIdle
    /\ Settings(CeleryModes, {{}}, {<<TRUE, {}>>})
    /\ AppInit
    /\ XOff

\* the broker is asked only when Celery is enabled
Ready ==
    \E health \in ClusterHealth, ping \in (IF use_celery THEN BOOLEAN ELSE {TRUE}) :
        readiness_check(health, ping)

ReadyNext ==
    \/ AppStartup
    \/ AppReceive
    \/ AppCallbackReturns
    \/ Ready

SpecReady == ReadyInitial /\ [][ReadyNext]_vars

-----------------------------------------------------------------------------
(* The indexer: bulk_index() is applied to one list of documents.          *)

BulkInitial ==
    /\ GatewayOff
    /\ OffBut({})

BulkNext == BulkIndex

SpecBulk == BulkInitial /\ [][BulkNext]_vars

-----------------------------------------------------------------------------
(* Valid events: the application serves, events arrive at the store and    *)
(* the envelope route, the flush callbacks end one way or the other.       *)

IngestInitial ==
    /\ BatcherInit({1, 2}, {1})
    /\ TimerIdle
    /\ Settings(CeleryModes, {{}}, {<<TRUE, {}>>})
    /\ AppInit
    /\ XOff

Ingest ==
    \E t \in RecvHandlers, req \in AppRequests, os \in OpenSearchStates :
        ingest(t, req, os)
        /\ UNCHANGED <<tvars, cvars, rvars, kvars, pvars, dvars, svars>>

IngestCallbackEnds ==
    \E t \in RecvHandlers, outcome \in CallbackOutcomes :
        ingest_callback_ends(t, outcome)
        /\ UNCHANGED <<tvars, cvars, avars, rvars, kvars, pvars, dvars, svars>>

IngestNext ==
    \/ RecvStartup
    \/ Ingest
    \/ IngestCallbackEnds

SpecIngest == IngestInitial /\ [][IngestNext]_vars

-----------------------------------------------------------------------------
(* The size limit: one request arrives with a header and a body of the     *)
(* lengths tried, with and without a key.                                  *)

SizeInitial ==
    /\ GatewayOff
    /\ XOff

SizedRequest ==
    \E route \in SizedRoutes, key \in {Absent, "key1"},
       h \in ContentLengthHeaders, len \in SizesTried :
        sized_request(route, key, h, len)

SizeNext == SizedRequest

SpecSize == SizeInitial /\ [][SizeNext]_vars

-----------------------------------------------------------------------------
(* Envelopes of several items: the application serves, envelopes arrive at *)
(* one handler and are worked off payload by payload, store requests are   *)
(* served by another, the flush callbacks end.                             *)

ItemsInitial ==
    /\ BatcherInit({2}, {1})
    /\ TimerIdle
    /\ Settings(CeleryModes, {{}}, {<<TRUE, {}>>})
    /\ AppInit
    /\ XOff

ItemsArrive == \E payloads \in PayloadLists : envelope_arrives(payloads)

ItemsTurn ==
    \E broker_ok \in BOOLEAN, batcher_ok \in BOOLEAN :
        envelope_item(broker_ok, batcher_ok)

ItemsAnswer == envelope_answers

ItemsStore ==
    \E req \in AppRequests :
        /\ req.route = "store"
        /\ receive(StoreHandler, req)
        /\ UNCHANGED <<tvars, cvars, xvars>>

ItemsNext ==
    \/ RecvStartup
    \/ ItemsArrive
    \/ ItemsTurn
    \/ ItemsAnswer
    \/ ItemsStore
    \/ AppCallbackReturns
    \/ AppCallbackRaises

SpecItems == ItemsInitial /\ [][ItemsNext]_vars

-----------------------------------------------------------------------------
(* The transformer: transform() is applied to one event.                   *)

TransformInitial ==
    /\ GatewayOff
    /\ XOff

TransformNext == Transform

SpecTransform == TransformInitial /\ [][TransformNext]_vars

-----------------------------------------------------------------------------
(* The enricher: enrich() is applied to one document, or transform() and   *)
(* enrich() to one event.                                                  *)

EnrichInitial ==
    /\ GatewayOff
    /\ XOff

EnrichNext ==
    \/ Enrich
    \/ TransformEnrich

SpecEnrich == EnrichInitial /\ [][EnrichNext]_vars

-----------------------------------------------------------------------------
(* The pipeline singleton: three threads call get_pipeline(), each of one  *)
(* of the two modules, and are interleaved step by step.                   *)

SingletonInitial ==
    /\ GatewayOff
    /\ OffBut({"singleton"})
    /\ SingletonInit

SingletonCall == \E t \in Threads, entry \in Entries : get_pipeline(t, entry)

SingletonTasks ==
    \E t \in Threads :
        \/ tasks_check(t)
        \/ tasks_acquire(t)
        \/ tasks_recheck(t)
        \/ tasks_assign(t)
        \/ tasks_release(t)
        \/ tasks_return(t)

SingletonEtl ==
    \E t \in Threads :
        \/ etl_check(t)
        \/ etl_acquire(t)
        \/ etl_recheck(t)
        \/ etl_components(t)
        \/ etl_new(t)
        \/ etl_init(t)
        \/ etl_assign(t)
        \/ etl_release(t)
        \/ etl_return(t)

SingletonNext ==
    \/ SingletonCall /\ UNCHANGED not_svars
    \/ SingletonTasks /\ UNCHANGED not_svars
    \/ SingletonEtl /\ UNCHANGED not_svars

SpecSingleton == SingletonInitial /\ [][SingletonNext]_vars

-----------------------------------------------------------------------------
(* Claims *)

InBuffer(id) == \E i \in 1..Len(buffer) : buffer[i].id = id
Delivered(id) == \E i \in 1..Len(calls) : id \in Range(calls[i].batch)
Completed(id) ==
    \E i \in 1..Len(calls) :
        id \in Range(calls[i].batch) /\ calls[i].status \in {"done", "raised"}
Added == next_id - 1
FirstIds(n) == [i \in 1..n |-> i]

\* C1: with batch_size = N and an initially empty buffer, once N add() calls
\* have returned and nothing but add() has flushed, the callback has been
\* invoked exactly once, with exactly those N documents, and the buffer is empty.
C1_SizeFlush ==
    ( /\ Added = batch_size
      /\ \A t \in Handlers : pc[t] = "idle"
      /\ \A i \in 1..Len(calls) : calls[i].via = "add" )
    => /\ Len(calls) = 1
       /\ calls[1].batch = FirstIds(batch_size)
       /\ calls[1].status \in {"done", "raised"}
       /\ buffer = <<>>

C1_Witness ==
    /\ batch_size >= 2
    /\ Added = batch_size
    /\ \A t \in Handlers : pc[t] = "idle"
    /\ Len(calls) = 1
    /\ calls[1].via = "add"
    /\ calls[1].status = "done"

\* a step in which stop() returns, and the documents added before it was called
StopReturns ==
    /\ pc'["main"] = "idle"
    /\ \/ pc["main"] = "idle" /\ stop("main")
       \/ pc["main"] \in {"stop_wait", "stop_cb"}
AddedBeforeStop == IF pc["main"] = "idle" THEN Added ELSE stop_added

\* C2: when stop() returns the buffer is empty and every document added before
\* stop() was called has been handed to a callback invocation that ran to
\* completion.
C2_StopDrains ==
    [][StopReturns =>
          /\ buffer' = <<>>
          /\ \A id \in 1..AddedBeforeStop : Completed(id)']_vars

\* C3: while the batcher runs and the buffer stays below batch_size, every
\* buffered document is eventually handed to the callback by the flush loop;
\* and add() calls with no time between them, followed by a second more than
\* the timeout without another add(), have produced exactly one invocation,
\* by the flush loop, carrying exactly those documents.
C3_TimeoutScenario ==
    ( /\ batch_timeout_seconds >= 1
      /\ quiet # None
      /\ ~spread
      /\ quiet >= (batch_timeout_seconds + CheckIntervalSeconds) * TicksPerSecond )
    => /\ Len(calls) = 1
       /\ calls[1].batch = FirstIds(Added)
       /\ calls[1].via = "timer"
       /\ buffer = <<>>

C3_TimeoutFlush ==
    /\ \A id \in 1..MaxDocs : InBuffer(id) ~> Delivered(id)
    /\ []C3_TimeoutScenario

C3_Witness ==
    /\ batch_timeout_seconds = 1
    /\ Added = 3
    /\ ~spread
    /\ quiet >= 2 * TicksPerSecond
    /\ Len(calls) = 1
    /\ calls[1].batch = <<1, 2, 3>>
    /\ calls[1].via = "timer"

\* C5: when the callback raises, flush() still returns the number of documents
\* it drained, these documents are not put back into the buffer, and add() is
\* still accepted.
C5_CallbackFailure ==
    /\ \A i \in 1..Len(calls) :
          calls[i].status = "raised" =>
              /\ calls[i].returned = Len(calls[i].batch)
              /\ \A id \in Range(calls[i].batch) : ~InBuffer(id)
    /\ \A t \in Handlers :
          ( /\ \E i \in 1..Len(calls) : calls[i].status = "raised"
            /\ pc[t] = "idle"
            /\ next_id <= MaxDocs )
          => ENABLED add(t)

\* a callback raised, and a later flush handed later documents to the callback
C5_Witness ==
    \E i, j \in 1..Len(calls) :
        /\ i < j
        /\ calls[i].status = "raised"
        /\ calls[i].returned = Len(calls[i].batch)
        /\ calls[j].status = "done"

\* C4: once the OpenSearch client has been closed, the batcher has been stopped
\* (stop() has completed) and no document is left in its buffer, whether the
\* batcher was created at startup or lazily by a request.
C4_DrainedBeforeClose ==
    client_closed => (~running /\ pc["main"] = "idle" /\ buffer = <<>>)

\* C7: on every ingestion route a request for a project outside a non-empty
\* allow-list is answered 404 whatever its key, and a request for an allowed
\* project with an invalid key is answered 401 whatever the size of its body.
C7_CheckOrder ==
    response # NoResponse =>
        /\ ~validate_project(response.project) => response.status = 404
        /\ ( /\ validate_project(response.project)
             /\ ~dsn_auth_validate_key(response.key) )
           => response.status = 401

\* an allowed project, an invalid key and a body above the limit: 401
C7_Witness ==
    /\ project_ids # {}
    /\ response.route = "security"
    /\ response.project \in project_ids
    /\ response.key = "key2"
    /\ response.big
    /\ response.status = 401

\* what a request can submit an event to: the batcher (created on first use),
\* the task queue and the pipeline
sinks == <<buffer, first_event_time, calls, next_id, global_batcher, running,
           flush_task, sleep_left, task_queue, pipeline_direct>>

Rejections == {404, 401, 413}

\* C8: a step in which a route answers a request with 404, 401 or 413 leaves
\* the batcher, the task queue and the pipeline as they were.
C8_RejectedLeavesSinks ==
    [][ \/ UNCHANGED sinks
        \/ ~\E t \in Handlers, req \in Requests :
               /\ response'.status \in Rejections
               /\ response' = Response(req, response'.status)
               /\ receive(t, req) ]_vars

\* a request carrying an event was rejected while the batcher held a document
C8_Witness ==
    /\ response.status \in Rejections
    /\ response.route = "store"
    /\ buffer # <<>>
    /\ calls = <<>>

\* C6: for every client and every fixed window, opened by the client's first
\* request after the previous window ended and lasting rate_limit_window
\* seconds, at most rate_limit_requests requests are admitted; a request that is
\* not admitted is answered 429 with Retry-After = rate_limit_window and
\* X-RateLimit-Remaining 0, and does not reach the route handler.
C6_WindowLimit ==
    /\ \A c \in Clients : admitted[c].count <= requests_per_window
    /\ rate_response.status = 429 =>
          /\ rate_response.retry_after = window_seconds
          /\ rate_response.headers /\ rate_response.remaining = 0
          /\ ~rate_response.handled

\* C9: with auth_required false every key passes, an absent one included; with
\* auth_required true and an empty allow-list exactly the non-empty keys pass;
\* with auth_required true and a non-empty allow-list a key passes if and only
\* if it is an entry of the list.
C9_KeyPolicy ==
    auth_result # "none" =>
        ( auth_result = "valid" <=>
            IF ~auth_required THEN TRUE
            ELSE IF allowed_keys = {} THEN auth_key \notin {Absent, ""}
            ELSE auth_key \in allowed_keys )

\* a key that is not listed is refused, as in test_validate_key_with_whitelist
C9_Witness ==
    /\ auth_required
    /\ allowed_keys = {"key1", "key2"}
    /\ auth_key = "key3"
    /\ auth_result = "invalid"

\* C10: EnvelopeParser.parse never raises, whatever the first line and the item
\* header lines contain (invalid JSON, valid JSON that is not an object, a
\* length that is not an integer or is negative): it returns a ParsedEnvelope.
C10_ParseNeverRaises == parse_state # "raised"

\* C11: of a well-formed envelope (header line, then items each made of a header
\* line and a payload, a declared length being the payload's byte count, the
\* payload then possibly holding newline bytes) parse returns the items in
\* order, each with a payload equal byte for byte to the one encoded.
C11_PayloadRoundTrip ==
    (parse_state \in {"returned", "raised"} /\ envelope # NoEnvelope) =>
        /\ parse_state = "returned"
        /\ Len(items) = Len(envelope.items)
        /\ \A k \in 1..Len(items) : items[k].payload = envelope.items[k].payload

\* two items are returned, the first with a declared payload that holds a
\* newline byte
C11_Witness ==
    /\ parse_state = "returned"
    /\ Len(envelope.items) = 2
    /\ envelope.items[1].declared
    /\ envelope.items[1].payload = <<"x", NL>>
    /\ Len(items) = 2
    /\ items[2].payload = envelope.items[2].payload

\* C12: every document the pipeline hands to the indexer, and so every document
\* the indexer writes, holds an event_id, whether the event came through the
\* batcher, the task queue or directly from a route: the id of the source event
\* or, if it had none, a generated one.
C12_EventIdPresent == \A d \in store : d.source.event_id # Absent

\* C13: for every event_id the store holds at most one document, however many
\* events with that id were indexed, by index_single or by bulk_index: a later
\* write has the same _id and replaces the earlier document.
C13_OneDocumentPerEventId ==
    \A id \in EventIds : Cardinality({d \in store : d.source.event_id = id}) <= 1

\* the UTC calendar day of a document's @timestamp, which transform() writes
\* as the ISO form of a naive datetime in UTC
UtcDay(document) == document.at_timestamp.date

decoded(body) == SelectSeq(body.event_payloads, LAMBDA p : p.parses)

\* C15: the envelope endpoint answers the id of the first event item (the
\* event's own id, else the header's event_id, else a fresh UUID), and the
\* JSON value null when the envelope yields no event item and its header
\* carries no event_id
C15_EnvelopeAnswerId ==
    (call.op = "receive_envelope" /\ call.body.kind = "envelope") =>
        LET events == decoded(call.body)
            h == call.body.header_event_id
        IN  /\ result.status = 200
            /\ events # <<>> =>
                  result.id = JsonString(
                      IF events[1].event_id # NoneId THEN events[1].event_id
                      ELSE IF h # NoneId THEN h ELSE uuid4(1))
            /\ (events = <<>> /\ h = NoneId) => result.id = JsonNull

\* C16: /ready answers 200 only if the health check succeeded with status
\* green or yellow and, when use_celery is set, the broker answered the ping;
\* in every other case it answers 503 with a checks map
C16_ReadyOnlyIfHealthy ==
    call.op = "ready" =>
        LET healthy == /\ state_opensearch
                       /\ call.health \in {"green", "yellow"}
                       /\ use_celery => call.ping
        IN  /\ result.status = 200 => healthy
            /\ ~healthy => /\ result.status = 503
                           /\ result.checks.opensearch.status # "ok"
                              \/ result.checks.redis = "error"

\* the documents of a sequence of bulk requests, in the order sent
RECURSIVE Sent(_)
Sent(bulk_requests) ==
    IF bulk_requests = <<>> THEN <<>>
    ELSE [k \in 1..Len(Head(bulk_requests)) |-> Head(bulk_requests)[k].source]
         \o Sent(Tail(bulk_requests))

\* the errors the chunks of the last call account for: one for a chunk whose
\* bulk request raised, one for each document of a chunk that was rejected
RECURSIVE ChunkErrors(_)
ChunkErrors(n) ==
    IF n = 0 THEN 0
    ELSE ChunkErrors(n - 1)
         + (IF call.outcomes[n] = "raises" THEN 1
            ELSE IF call.outcomes[n] = "rejected" THEN Len(result.requests[n])
            ELSE 0)

\* C17: bulk_index sends the documents in consecutive chunks of at most
\* chunk_size documents, every document once; a chunk whose request raises
\* counts as one error and the later chunks are still sent; the errors
\* returned are never more than ten
C17_BulkChunks ==
    call.op = "bulk_index" =>
        /\ \A n \in 1..Len(result.requests) :
              Len(result.requests[n]) \in 1..call.chunk_size
        /\ Sent(result.requests) = call.documents
        /\ Len(result.requests) = Len(call.outcomes)
        /\ result.failed = ChunkErrors(Len(call.outcomes))
        /\ Len(result.errors) <= ErrorLimit

\* a chunk raised, a later chunk was sent, and more errors were counted than
\* are returned
C17_Witness ==
    /\ call.op = "bulk_index"
    /\ \E n \in 1..Len(call.outcomes) :
          /\ call.outcomes[n] = "raises"
          /\ n < Len(result.requests)
    /\ result.failed > ErrorLimit
    /\ Len(result.errors) = ErrorLimit

\* C18: with use_celery set every accepted event is submitted to the task
\* queue and none is ever added to the Batcher; with use_celery unset every
\* accepted event goes through the Batcher.  An accepted event is one whose
\* request the route answers 200.
C18_CeleryBypassesBatcher ==
    [][ \A t \in RecvHandlers, req \in Requests :
           ( /\ has_event(req)
             /\ response' = Response(req, 200)
             /\ receive(t, req) )
           => IF use_celery
              THEN /\ task_queue' = task_queue \cup {next_id}
                   /\ UNCHANGED <<buffer, calls, global_batcher, pipeline_direct>>
              ELSE /\ \/ \E k \in 1..Len(buffer') : buffer'[k].id = next_id
                      \/ \E k \in 1..Len(calls') : next_id \in Range(calls'[k].batch)
                   /\ UNCHANGED <<task_queue, pipeline_direct>> ]_vars

\* the invocations of the flush callback a document was handed to
Handed(id) == {k \in 1..Len(calls) : id \in Range(calls[k].batch)}

\* C19: when OpenSearch is unreachable or rejects the documents, a valid
\* event on the store or the envelope route is still answered 200 with its
\* id, and the documents of a failed flush are dropped: they are neither put
\* back into the buffer nor handed to the callback again
C19_IndexFailureStillSuccess ==
    /\ (result.op = "answered" /\ result.os \in {"rejects", "unreachable"}) =>
          /\ result.status = 200
          /\ result.id = call.id
    /\ \A k \in 1..Len(calls) :
          calls[k].status = "raised" =>
             \A id \in Range(calls[k].batch) : ~InBuffer(id) /\ Handed(id) = {k}

\* a store request was answered 200 although the flush its event triggered
\* failed with OpenSearch out of reach
C19_Witness ==
    /\ result.op = "answered"
    /\ result.os = "unreachable"
    /\ result.status = 200
    /\ call.route = "store"
    /\ \E k \in 1..Len(calls) : calls[k].status = "raised" /\ call.id \in Range(calls[k].batch)

\* C20: on the envelope, store and security routes a request that passes the
\* project and key checks is answered 413 before its body is read when its
\* Content-Length exceeds max_request_size; it is answered 413 as well when
\* the header is absent, unparseable or understated and the body read
\* exceeds max_request_size; a body of exactly max_request_size bytes is
\* accepted
C20_RequestSizeLimit ==
    (call.op = "sized_request" /\ dsn_auth_validate_key(call.req.key)) =>
        LET h == call.header
            len == call.req.body.len
            over == h.kind = "number" /\ h.value > max_request_size
        IN  /\ over => result.status = 413 /\ ~result.body_read
            /\ (~over /\ len > max_request_size) =>
                  result.status = 413 /\ result.body_read
            /\ (~over /\ len = max_request_size) =>
                  result.status = 0 /\ result.body_read

\* a body over the limit was read under a header that understates it, and
\* answered 413
C20_Witness ==
    /\ call.op = "sized_request"
    /\ call.header.kind = "number"
    /\ call.header.value < call.req.body.len
    /\ call.req.body.len = max_request_size + 1
    /\ result.body_read
    /\ result.status = 413

\* the documents that reached the Batcher, in the order it handed or will
\* hand them on: the batches of the callback invocations, then the buffer
RECURSIVE Batches(_)
Batches(n) == IF n = 0 THEN <<>> ELSE Batches(n - 1) \o calls[n].batch
BatcherOrder == Batches(Len(calls)) \o Ids(buffer)
PlaceOf(id) == CHOOSE k \in 1..Len(BatcherOrder) : BatcherOrder[k] = id
InBatcher(id) == \E k \in 1..Len(BatcherOrder) : BatcherOrder[k] = id

\* the payloads of the envelope in progress that were handed to _process_event
Submitted == {k \in 1..Len(call.done) : call.done[k].id # None}

\* C21: a flush hands the documents to the callback in the order in which
\* add() accepted them (ids are given in that order), and the event items of
\* one envelope reach the Batcher in the order they have in the envelope
C21_OrderPreserved ==
    /\ \A k \in 1..Len(calls) :
          \A i, j \in 1..Len(calls[k].batch) :
             i < j => calls[k].batch[i] < calls[k].batch[j]
    /\ call.op = "envelope" =>
          \A a, b \in Submitted :
             ( /\ call.done[a].position < call.done[b].position
               /\ InBatcher(call.done[a].id) /\ InBatcher(call.done[b].id) )
             => PlaceOf(call.done[a].id) < PlaceOf(call.done[b].id)

\* two items of one envelope were flushed together, in their order
C21_Witness ==
    /\ call.op = "envelope"
    /\ Len(call.done) >= 2
    /\ \E k \in 1..Len(calls) :
          /\ Len(calls[k].batch) = 2
          /\ calls[k].batch[1] = call.done[1].id
          /\ calls[k].batch[2] = call.done[2].id

\* C30: in an envelope of several event items a payload that fails to decode,
\* or whose submission raises, is the only one skipped: every payload is
\* taken in turn, every decoded one is handed to _process_event and, unless
\* that raised, is in a sink; the request is answered 200
C30_ItemFailureSkipsItem ==
    call.op = "envelope" =>
        /\ \A k \in 1..Len(call.done) :
              /\ call.done[k].position = k
              /\ (call.done[k].id # None) = call.payloads[k]
              /\ (call.done[k].id # None /\ ~call.done[k].raised) =>
                    \/ call.done[k].id \in task_queue
                    \/ call.done[k].id \in pipeline_direct
                    \/ InBatcher(call.done[k].id)
        /\ result # Pending =>
              /\ result.status = 200
              /\ Len(call.done) = Len(call.payloads)

\* an envelope was answered whose first payload failed, in decoding or in
\* submission, and whose second was submitted
C30_Witness ==
    /\ call.op = "envelope"
    /\ result # Pending
    /\ Len(call.done) = 2
    /\ call.done[1].raised
    /\ call.done[2].id # None /\ ~call.done[2].raised
    /\ call.done[2].id \in task_queue

\* C22: no document of transform() has a top-level field that is None, the
\* empty string, an empty mapping or an empty sequence; an event without
\* user, request, contexts, sdk and tags gives a document without the keys
\* user, request, browser, os, device, runtime, sdk and tags
C22_NoEmptyFields ==
    call.op = "transform" =>
        /\ \A k \in DOMAIN result :
              result[k] \notin {NoneId, EmptyString, EmptyMap, EmptySeq}
        /\ ( /\ call.event.user = NoneId /\ call.event.request = NoneId
             /\ call.event.contexts = NoneId /\ call.event.sdk = NoneId
             /\ call.event.tags = NoneId )
           => DOMAIN result \cap {"user", "request", "browser", "os", "device",
                                  "runtime", "sdk", "tags"} = {}

\* C23: an item whose header declares a length larger than the number of
\* bytes that remain in the input has exactly the remaining bytes of the
\* input as its payload, and no byte that was not in the input
C23_LengthClamped ==
    \A k \in 1..Len(items) :
        LET rest == remaining_input(lines, items[k].line)
        IN ( /\ items[k].headers.length_type = "int"
             /\ items[k].headers.length > Len(rest) )
           => items[k].payload = rest

\* C24: when an item header declares a length L and at least L bytes follow
\* it, the decoder consumes exactly those L bytes and at most one newline
\* after them, so that decoding resumes at the next item header
C24_LengthConsumed ==
    [][ Len(items') = Len(items) + 1 =>
          LET item == items'[Len(items')]
              L == item.headers.length
              rest == remaining_input(lines, item.line)
              left == SubSeq(rest, L + 1, Len(rest))
              resumes == JoinLines(SubSeq(lines, line_index' + 1, Len(lines)))
          IN ( /\ item.headers.length_type = "int"
               /\ L >= 0 /\ Len(rest) >= L )
             => \/ resumes = left
                \/ left # <<>> /\ Head(left) = NL /\ resumes = Tail(left) ]_vars

\* C25: a first line that is not a JSON text gives the empty envelope header
\* and the decoding of the items goes on from the line after it; an item
\* header line that is not a JSON text is skipped by advancing one line, no
\* item is made of it and the following line is the next candidate header
C25_InvalidJsonSkipped ==
    [][ /\ ( /\ parse_state = "ready" /\ raw_body # <<>>
              /\ orjson_loads(Split(raw_body)[1]).kind = "invalid" )
           => /\ header' = "empty"
              /\ parse_state' = "items"
              /\ lines' = Tail(Split(raw_body))
              /\ line_index' = 0
        /\ ( /\ parse_state = "items" /\ line_index < Len(lines)
              /\ ~blank(lines[line_index + 1])
              /\ orjson_loads(lines[line_index + 1]).kind = "invalid" )
           => /\ line_index' = line_index + 1
              /\ items' = items
              /\ parse_state' = "items" ]_vars

\* parse() returned the empty header for a first line that is no JSON text,
\* skipped the line after it, which is none either, and decoded the item
\* whose header is the line after that
C25_Witness ==
    /\ parse_state = "returned"
    /\ ~blank(Split(raw_body)[1])
    /\ orjson_loads(Split(raw_body)[1]).kind = "invalid"
    /\ header = "empty"
    /\ Len(lines) >= 3
    /\ ~blank(lines[1]) /\ orjson_loads(lines[1]).kind = "invalid"
    /\ Len(items) = 1
    /\ items[1].line = 1
    /\ items[1].payload = lines[3]

\* C26: a request of a client that arrives rate_limit_window seconds or more
\* after the start of the client's window starts a new window: it is admitted,
\* the counter becomes 1 and the window starts at the arrival, even if the old
\* window was exhausted; a request that arrives before that stays in the old
\* window, whose start is kept and in which it is counted or refused
C26_WindowBoundary ==
    (call.op = "dispatch" /\ call.path \notin BypassPaths) =>
        LET found == call.found[call.client]
            left == result.left[call.client]
        IN /\ found.age >= WindowTicks =>
                 /\ result.status # 429
                 /\ left = [count |-> 1, age |-> 0]
           /\ found.age < WindowTicks =>
                 /\ left.age = found.age
                 /\ \/ result.status # 429 /\ left.count = found.count + 1
                    \/ result.status = 429 /\ left.count = found.count

\* a request arrived exactly rate_limit_window seconds after the start of a
\* window that was exhausted, and opened a new one
C26_Witness ==
    /\ call.op = "dispatch" /\ call.path \notin BypassPaths
    /\ requests_per_window >= 1
    /\ call.found[call.client].age = WindowTicks
    /\ call.found[call.client].count >= requests_per_window
    /\ result.status = 200
    /\ result.left[call.client] = [count |-> 1, age |-> 0]

\* C27: a request to /health, /ready or /metrics passes the rate limiter by:
\* it is never answered 429 and changes no client's counter or window start,
\* even for a client whose window is exhausted
C27_HealthBypass ==
    (call.op = "dispatch" /\ call.path \in {"/health", "/ready", "/metrics"}) =>
        /\ result.status # 429
        /\ result.left = call.found

\* a client whose window is exhausted and still open asked for /metrics
C27_Witness ==
    /\ call.op = "dispatch" /\ call.path = "/metrics"
    /\ call.found[call.client].age < WindowTicks
    /\ call.found[call.client].count >= requests_per_window
    /\ result.status = 200
    /\ result.left = call.found

\* C28: the flush callback runs with the lock of the buffer released: while an
\* invocation of the callback is in progress the lock is free, so that add()
\* can take it and append a document, and no document of the buffer is part
\* of the batch being processed
C28_CallbackOutsideLock ==
    \A i \in 1..Len(calls) :
        calls[i].status = "running" =>
            /\ lock = "free"
            /\ \A k \in 1..Len(buffer) : buffer[k].id \notin Range(calls[i].batch)

\* while a callback is in progress on a batch, add() appended a later document,
\* which waits in the buffer
C28_Witness ==
    \E i \in 1..Len(calls) :
        /\ calls[i].status = "running"
        /\ lock = "free"
        /\ \E k \in 1..Len(buffer) :
              \A j \in 1..Len(calls[i].batch) : buffer[k].id > calls[i].batch[j]

\* C29: under every interleaving of concurrent get_pipeline() calls each
\* component and the ETLPipeline are constructed once, every caller receives
\* that one instance with all its attributes set, and neither module's
\* _pipeline ever names an instance that is not fully built
C29_SingletonOnce ==
    /\ Len(pipelines) <= 1
    /\ \A a \in Range(Attributes) : built[a] <= 1
    /\ etl_pipeline # None => pipelines[etl_pipeline] = Range(Attributes)
    /\ tasks_pipeline # None => pipelines[tasks_pipeline] = Range(Attributes)
    /\ \A t \in Threads :
          thread[t].pc = "done" =>
              /\ thread[t].got # None
              /\ thread[t].seen = Range(Attributes)
              /\ \A a \in Range(Attributes) : built[a] = 1
              /\ \A u \in Threads :
                    thread[u].pc = "done" => thread[u].got = thread[t].got

\* three callers, through both modules, hold the instance, and one of them
\* was let into the lock of pipeline.py only after another had built it
C29_Witness ==
    /\ \A t \in Threads : thread[t].pc = "done" /\ thread[t].got = 1
    /\ \E t, u \in Threads : thread[t].entry = "etl" /\ thread[u].entry = "tasks"
    /\ \E t \in Threads : thread[t].late

\* C31: the message of the document is that of the exception if the event has
\* one, else event.message if it is not empty, else the message of the
\* logentry if it is not empty; when all three are empty, a logentry with an
\* empty or missing message included, it is the literal "No message"
C31_MessagePriority ==
    call.op = "transform" =>
        LET event == call.event
            message == IF "message" \in DOMAIN result THEN result["message"]
                       ELSE NoneId
        IN  IF event.exception = Full THEN message = FromException
            ELSE IF event.message = Full THEN message = FromMessage
            ELSE IF event.logentry = Full THEN message = FromLogentry
            ELSE message = NoMessage

\* C32: in the pipeline, transform() followed by enrich(), an event without
\* browser and os contexts whose request carries a User-Agent header, in any
\* letter case, gets the browser and os the parser derives from that header
C32_UserAgentEnriched ==
    ( /\ call.op = "pipeline"
      /\ call.event.contexts = NoneId
      /\ call.headers \in {"User-Agent", "user-agent", "USER-AGENT"}
      /\ call.env.USER_AGENTS_AVAILABLE
      /\ {"browser", "os"} \subseteq call.env.families )
    => /\ "browser" \in DOMAIN result /\ result["browser"] = FromUserAgent
       /\ "os" \in DOMAIN result /\ result["os"] = FromUserAgent

BufferSlots(id) == {k \in 1..Len(buffer) : buffer[k].id = id}
BatchSlots(id) ==
    {s \in (1..Len(calls)) \X (1..MaxDocs) :
        s[2] <= Len(calls[s[1]].batch) /\ calls[s[1]].batch[s[2]] = id}

\* C34: under every interleaving of add(), size, timer and explicit flushes
\* and stop(), a document accepted by add() is either still in the buffer,
\* once, or part of exactly one invocation of the callback, once, never both
\* and never in two invocations; and no invocation carries an empty batch: a
\* flush that finds the buffer empty does not call the callback, and what a
\* flush returns is the number of documents it handed over.
C34_DeliveredOnce ==
    /\ \A id \in 1..Added :
          Cardinality(BufferSlots(id)) + Cardinality(BatchSlots(id)) = 1
    /\ \A i \in 1..Len(calls) :
          /\ calls[i].batch # <<>>
          /\ calls[i].returned # None => calls[i].returned = Len(calls[i].batch)

\* the flush loop and an add() are both inside the callback, on different
\* batches
C34_Witness ==
    \E j, k \in 1..Len(calls) :
        /\ calls[j].via = "timer" /\ calls[j].status = "running"
        /\ calls[k].via = "add" /\ calls[k].status = "running"
        /\ Len(calls[k].batch) = 2

\* C35: whenever the lock of the buffer is free, _first_event_time is None
\* exactly when the buffer is empty, and otherwise it is the time the oldest
\* document of the buffer was added at; so when the flush loop finds the
\* timeout elapsed, a document that old is in the buffer.
C35_FirstEventTime ==
    lock = "free" =>
        /\ first_event_time = None <=> buffer = <<>>
        /\ buffer # <<>> =>
              /\ first_event_time = buffer[1].received_at
              /\ \A k \in 1..Len(buffer) :
                    buffer[k].received_at <= first_event_time
        /\ loop_should_flush(first_event_time) =>
              /\ buffer # <<>>
              /\ buffer[1].received_at >= batch_timeout_seconds * TicksPerSecond

\* after a flush, two documents added at different times wait in the buffer
\* and _first_event_time is the time of the older one
C35_Witness ==
    /\ lock = "free"
    /\ calls # <<>>
    /\ Len(buffer) = 2
    /\ buffer[1].received_at > buffer[2].received_at
    /\ first_event_time = buffer[1].received_at

\* a step of add(), and whether the document it appends fills the batch
AddStep == \E t \in Handlers : add(t)
AddFills == Len(buffer) + 1 >= batch_size

\* C36: with batch_size >= 1, whenever no add() is in progress the buffer
\* holds fewer than batch_size documents; and an add() that brings the buffer
\* to batch_size drains it before it returns: it takes all its documents out
\* and is inside the callback with them.
C36_BelowBatchSize ==
    /\ []( (batch_size >= 1 /\ \A t \in Handlers : pc[t] # "add_cb")
              => Len(buffer) < batch_size )
    /\ [][(batch_size >= 1 /\ AddStep /\ AddFills) =>
              /\ buffer' = <<>>
              /\ Len(calls') = Len(calls) + 1
              /\ Len(calls'[Len(calls')].batch) = Len(buffer) + 1
              /\ \E t \in Handlers : pc[t] = "idle" /\ pc'[t] = "add_cb"]_vars

\* an add() filled a batch of several documents and is inside the callback
\* with them, the buffer empty; another add() has returned before
C36_Witness ==
    /\ batch_size >= 2
    /\ buffer = <<>>
    /\ \E t \in Handlers :
          /\ pc[t] = "add_cb"
          /\ calls[RunningCall(t)].via = "add"
          /\ Len(calls[RunningCall(t)].batch) = batch_size
    /\ \E t \in Handlers : pc[t] = "idle"

\* a step of a thread inside _is_rate_limited(), and the client it counts
LimiterStep(t) ==
    \/ \E c \in Clients : limiter_enter(t, c)
    \/ limiter_acquire(t)
    \/ limiter_write(t)
Counting(c) ==
    \E t \in Handlers : rate_thread[t].pc = "locked" /\ rate_thread[t].client = c

\* C37: no request changes the counter or the window start of another client
\* id; a request answered 429 leaves those of its own client as they were;
\* and under concurrent requests no update is lost: whenever no thread is
\* between reading and storing the entry of a client, its counter is the
\* number of requests admitted since its window was opened.
C37_CountersKept ==
    /\ [](\A c \in Clients :
             (rate_lock = "free" /\ ~Counting(c)) =>
                 requests[c].count = admitted[c].count)
    /\ [][\A t \in Handlers :
             LimiterStep(t) =>
                 /\ \A c \in Clients :
                       requests'[c] # requests[c] =>
                           /\ c = rate_thread[t].client
                           /\ rate_thread[t].pc = "locked"
                 /\ rate_thread'[t].status = 429 => requests' = requests]_vars

\* two threads count requests of one client at once: one holds the lock and
\* has read the counter at 1 of 2, the other has been waiting for the lock
\* for a tick, while the other client has a window of its own
C37_Witness ==
    /\ requests_per_window = 2
    /\ rate_lock = "r1"
    /\ rate_thread["r1"].pc = "locked"
    /\ rate_thread["r1"].count = 1
    /\ rate_thread["r2"].pc = "wait"
    /\ rate_thread["r2"].waited = 1
    /\ rate_thread["r2"].client = rate_thread["r1"].client
    /\ \E c \in Clients : c # rate_thread["r1"].client /\ requests[c].count = 2

\* C38: parse() ends on every body, with a ParsedEnvelope or an exception:
\* its first step ends it or enters the item loop, and the item loop, once
\* entered, ends; every turn of the item loop that does not end parse() by
\* raising advances the line index by at least one, never past the last
\* line; and there are never more decoded items than lines passed after the
\* header.
C38_ParseTerminates ==
    /\ [][parse_start => parse_state' \in {"items", "returned", "raised"}]_vars
    /\ parse_state = "items" ~> parse_state \in {"returned", "raised"}
    /\ [][parse_item =>
             \/ parse_state' = "raised"
             \/ /\ line_index' >= line_index + 1
                /\ line_index' <= Len(lines)]_vars
    /\ [](/\ Len(items) <= line_index
          /\ line_index <= Len(lines))

\* parse() returned after a turn that skipped a line and a turn that decoded
\* an item of two lines
C38_Witness ==
    /\ parse_state = "returned"
    /\ Len(lines) = 3
    /\ line_index = 3
    /\ Len(items) = 1
    /\ items[1].line = 1

====
